---- MODULE Spec2Model ----
(***************************************************************************)
(* MiniGameStore: the HTML content security scanner (src/lib/security.ts)  *)
(* and the handlers that call it.  Contents are strings; the regular       *)
(* expressions of the source are interpreted character by character by a   *)
(* backtracking matcher with the semantics of ECMAScript RegExp objects    *)
(* (leftmost match, greedy or lazy quantifiers, the lastIndex of a global  *)
(* RegExp).                                                                *)
(***************************************************************************)
EXTENDS Integers, Sequences, FiniteSets, TLC

VARIABLES
    lastIndex,   \* lastIndex[i]: lastIndex of RegExp i of DEFAULT_SECURITY_CONFIG.forbiddenPatterns
    call,        \* the last call: which function, its content and policy
    result,      \* what that call returned (for the scanner a SecurityValidationResult)
    report,      \* summary and recommendations when the call was generateSecurityReport
    first,       \* for each (content, policy) called: the result of the first such call
    before,      \* lastIndex as it was when the last call started
    games,       \* rows of the games table (GameDAL)
    response,    \* the last response of POST /api/games
    form,        \* GameSubmissionForm: the form's values and the component's state
    reviewLogs,  \* rows of the review_logs table (ReviewLogDAL)
    requests,    \* the requests POST /api/admin/review being handled, each at an await
    sqlMode,     \* the SQL mode of the database server: "strict" or "loose"
    answered     \* the last request to an admin or game route that was answered

vars == <<lastIndex, call, result, report, first, before, games, response, form,
         reviewLogs, requests, sqlMode, answered>>

----------------------------------------------------------------------------
(* Strings and characters *)

\* the set {v}, its element compared with itself: the comparison puts the
\* fields of every record in v in their order, once, before the value is
\* bound in an action that threads evaluate at the same time
Only(v) == {x \in {v} : x = x}

CharAt(s, i) == SubSeq(s, i, i)

LowerAlphabet == "abcdefghijklmnopqrstuvwxyz"
UpperAlphabet == "ABCDEFGHIJKLMNOPQRSTUVWXYZ"
LowerLetters ==
    {"a", "b", "c", "d", "e", "f", "g", "h", "i", "j", "k", "l", "m",
     "n", "o", "p", "q", "r", "s", "t", "u", "v", "w", "x", "y", "z"}
UpperLetters ==
    {"A", "B", "C", "D", "E", "F", "G", "H", "I", "J", "K", "L", "M",
     "N", "O", "P", "Q", "R", "S", "T", "U", "V", "W", "X", "Y", "Z"}
Letters == LowerLetters \cup UpperLetters
Digits == {"0", "1", "2", "3", "4", "5", "6", "7", "8", "9"}
Whitespace == {" ", "\n", "\t", "\r"}
\* the class ["'`] of the source; the backquote is not a character of any
\* content of this model (a TLA+ string cannot hold it)
Quotes == {"\"", "'"}

LowerOf(ch) ==
    IF ch \in UpperLetters
    THEN CharAt(LowerAlphabet, CHOOSE i \in 1..26 : CharAt(UpperAlphabet, i) = ch)
    ELSE ch

RECURSIVE toLowerCase(_)
toLowerCase(s) ==
    IF Len(s) = 0 THEN ""
    ELSE LowerOf(CharAt(s, 1)) \o toLowerCase(SubSeq(s, 2, Len(s)))

startsWith(s, prefix) ==
    Len(prefix) <= Len(s) /\ SubSeq(s, 1, Len(prefix)) = prefix

endsWith(s, suffix) ==
    Len(suffix) <= Len(s) /\ SubSeq(s, Len(s) - Len(suffix) + 1, Len(s)) = suffix

includes(s, part) ==
    \E i \in 1..(Len(s) - Len(part) + 1) : SubSeq(s, i, i + Len(part) - 1) = part

\* String.prototype.trim
trim(s) ==
    LET solid == {i \in 1..Len(s) : CharAt(s, i) \notin Whitespace}
    IN  IF solid = {} THEN ""
        ELSE SubSeq(s, CHOOSE i \in solid : \A j \in solid : i <= j,
                       CHOOSE i \in solid : \A j \in solid : i >= j)

\* Characters that take more than one byte in UTF-8
TwoByteChars == {"é"}
ThreeByteChars == {"€"}

\* the size taken as the number of characters
BlobSize_Characters(s) == Len(s)

\* new Blob([s]).size: the UTF-8 byte length of s
BlobSize(s) ==
    Len(s) + Cardinality({i \in 1..Len(s) : CharAt(s, i) \in TwoByteChars})
           + 2 * Cardinality({i \in 1..Len(s) : CharAt(s, i) \in ThreeByteChars})

----------------------------------------------------------------------------------------------------------------------------------------
(* Regular expressions.  A RegExp is a sequence of elements, each a        *)
(* character class with a quantifier: exactly one (lo = 1, not many), ?    *)
(* (lo = 0, not many), * (lo = 0, many), + (lo = 1, many); lazy marks *?.  *)
(* With the i flag both the class and the input character are compared in  *)
(* canonical (lower) case.                                                 *)

One(cls)      == [cls |-> cls, neg |-> FALSE, lo |-> 1, many |-> FALSE, lazy |-> FALSE]
Opt(cls)      == [cls |-> cls, neg |-> FALSE, lo |-> 0, many |-> FALSE, lazy |-> FALSE]
Star(cls)     == [cls |-> cls, neg |-> FALSE, lo |-> 0, many |-> TRUE, lazy |-> FALSE]
Plus(cls)     == [cls |-> cls, neg |-> FALSE, lo |-> 1, many |-> TRUE, lazy |-> FALSE]
NotStar(cls)  == [cls |-> cls, neg |-> TRUE, lo |-> 0, many |-> TRUE, lazy |-> FALSE]
NotPlus(cls)  == [cls |-> cls, neg |-> TRUE, lo |-> 1, many |-> TRUE, lazy |-> FALSE]
AnyLazyStar   == [cls |-> {}, neg |-> TRUE, lo |-> 0, many |-> TRUE, lazy |-> TRUE]

Lit(s) == [k \in 1..Len(s) |-> One({CharAt(s, k)})] \o <<>>

RegExp(source, elems, flags) ==
    LET ic == includes(flags, "i")
    IN  [source |-> source,
         elems |-> [k \in 1..Len(elems) |->
                      IF ic THEN [elems[k] EXCEPT !.cls = {LowerOf(x) : x \in @}]
                      ELSE elems[k]] \o <<>>,
         global |-> includes(flags, "g"),
         ignoreCase |-> ic]

\* least element of a non-empty set of integers
Least(S) == CHOOSE x \in S : \A y \in S : x <= y

\* does character ch match element e of a RegExp whose i flag is ic
ElemMatches(e, ic, ch) == ((IF ic THEN LowerOf(ch) ELSE ch) \in e.cls) # e.neg

\* how many characters of s from position i on element e can take
Run(e, ic, s, i) ==
    IF ~e.many
    THEN (IF i <= Len(s) /\ ElemMatches(e, ic, CharAt(s, i)) THEN 1 ELSE 0)
    ELSE (CHOOSE j \in i..(Len(s) + 1) :
             /\ j = Len(s) + 1 \/ ~ElemMatches(e, ic, CharAt(s, j))
             /\ \A h \in i..(j - 1) : ElemMatches(e, ic, CharAt(s, h))) - i

RECURSIVE MatchFrom(_, _, _, _)
RECURSIVE TryCount(_, _, _, _, _, _)
\* Match elements k.. of re at position i of s (1-based).  The result is
\* <<>> when there is no match, else the start position of each element
\* k.. followed by the position after the match.  A quantified element
\* takes the first count, in the backtracking order of ECMAScript (greedy:
\* longest first, lazy: shortest first), with which the rest matches.
MatchFrom(re, k, s, i) ==
    IF k > Len(re.elems) THEN <<i>>
    ELSE LET e == re.elems[k]
             r == Run(e, re.ignoreCase, s, i)
         IN  IF r < e.lo THEN <<>>
             ELSE TryCount(re, k, s, i, IF e.lazy THEN e.lo ELSE r, r)

\* element k takes n characters, or the next count in order when the rest
\* of the pattern does not match after them (r: the most it can take)
TryCount(re, k, s, i, n, r) ==
    LET rest == MatchFrom(re, k + 1, s, i + n)
    IN  IF rest # <<>> THEN <<i>> \o rest
        ELSE IF re.elems[k].lazy
             THEN (IF n < r THEN TryCount(re, k, s, i, n + 1, r) ELSE <<>>)
             ELSE (IF n > re.elems[k].lo THEN TryCount(re, k, s, i, n - 1, r)
                   ELSE <<>>)

\* can a match of re start at position i of s: the first element, when it
\* must take a character, takes the one at i
CanStart(re, s, i) ==
    \/ Len(re.elems) = 0
    \/ re.elems[1].lo = 0
    \/ i <= Len(s) /\ ElemMatches(re.elems[1], re.ignoreCase, CharAt(s, i))

\* the leftmost match of re in s starting at 0-based index li or later
SearchFrom(re, s, li) ==
    LET starts == {i \in li..Len(s) :
                      CanStart(re, s, i + 1) /\ MatchFrom(re, 1, s, i + 1) # <<>>}
    IN  IF starts = {} THEN <<>> ELSE MatchFrom(re, 1, s, Least(starts) + 1)

MatchStart(m) == m[1]           \* 1-based position of the first character
MatchEnd(m) == m[Len(m)] - 1    \* 0-based index after the match (lastIndex)
MatchText(s, m) == SubSeq(s, m[1], m[Len(m)] - 1)
\* the text taken by elements a..b of the pattern (a capture group)
Group(s, m, a, b) == SubSeq(s, m[a], m[b + 1] - 1)

\* RegExp.prototype.exec / test of a global RegExp whose lastIndex is li:
\* the match (<<>> for null) and the new lastIndex
RegExpExec(re, s, li) ==
    LET m == SearchFrom(re, s, li)
    IN  IF m = <<>> THEN [match |-> <<>>, lastIndex |-> 0]
        ELSE [match |-> m, lastIndex |-> MatchEnd(m)]

RECURSIVE ExecAll(_, _, _)
\* the matches of the loop  while ((m = re.exec(s)) !== null)  for a global re
\* starting with lastIndex li (an empty match is not retried in place)
ExecAll(re, s, li) ==
    LET x == RegExpExec(re, s, li)
    IN  IF x.match = <<>> THEN <<>>
        ELSE <<x.match>> \o
             ExecAll(re, s, IF x.lastIndex = MatchStart(x.match) - 1
                            THEN x.lastIndex + 1 ELSE x.lastIndex)

RECURSIVE Texts(_, _)
Texts(s, ms) ==
    IF ms = <<>> THEN <<>> ELSE <<MatchText(s, ms[1])>> \o Texts(s, Tail(ms))

\* String.prototype.match with a global RegExp: lastIndex is set to 0, all
\* matched substrings are collected (<<>> stands for null)
StringMatchGlobal(s, re) == Texts(s, ExecAll(re, s, 0))

----------------------------------------------------------------------------
(* The policy (SecurityConfig) *)

WS == <<Star(Whitespace)>>
\* ["'`][^"'`]*["'`]
QuotedText == <<One(Quotes), NotStar(Quotes), One(Quotes)>>

\* config.forbiddenPatterns of DEFAULT_SECURITY_CONFIG (the backquote of the
\* quote classes is left out of the source texts)
DefaultForbiddenPatterns == <<
    RegExp("fetch\\s*\\(", Lit("fetch") \o WS \o Lit("("), "gi"),
    RegExp("XMLHttpRequest", Lit("XMLHttpRequest"), "gi"),
    RegExp("axios\\.", Lit("axios."), "gi"),
    RegExp("\\$\\.ajax", Lit("$.ajax"), "gi"),
    RegExp("\\$\\.get", Lit("$.get"), "gi"),
    RegExp("\\$\\.post", Lit("$.post"), "gi"),
    RegExp("document\\.cookie", Lit("document.cookie"), "gi"),
    RegExp("localStorage", Lit("localStorage"), "gi"),
    RegExp("sessionStorage", Lit("sessionStorage"), "gi"),
    RegExp("indexedDB", Lit("indexedDB"), "gi"),
    RegExp("eval\\s*\\(", Lit("eval") \o WS \o Lit("("), "gi"),
    RegExp("Function\\s*\\(", Lit("Function") \o WS \o Lit("("), "gi"),
    RegExp("setTimeout\\s*\\(\\s*[\"'][^\"']*[\"']",
           Lit("setTimeout") \o WS \o Lit("(") \o WS \o QuotedText, "gi"),
    RegExp("setInterval\\s*\\(\\s*[\"'][^\"']*[\"']",
           Lit("setInterval") \o WS \o Lit("(") \o WS \o QuotedText, "gi"),
    RegExp("document\\.write", Lit("document.write"), "gi"),
    RegExp("document\\.writeln", Lit("document.writeln"), "gi"),
    RegExp("innerHTML\\s*=\\s*[\"'][^\"']*<script",
           Lit("innerHTML") \o WS \o Lit("=") \o WS
             \o <<One(Quotes), NotStar(Quotes)>> \o Lit("<script"), "gi"),
    RegExp("import\\s*\\(", Lit("import") \o WS \o Lit("("), "gi"),
    RegExp("require\\s*\\(", Lit("require") \o WS \o Lit("("), "gi"),
    RegExp("loadScript", Lit("loadScript"), "gi"),
    RegExp("window\\.open", Lit("window.open"), "gi"),
    RegExp("window\\.location", Lit("window.location"), "gi"),
    RegExp("location\\.href", Lit("location.href"), "gi"),
    RegExp("location\\.replace", Lit("location.replace"), "gi"),
    RegExp("action\\s*=\\s*[\"']https?:\\/\\/",
           Lit("action") \o WS \o Lit("=") \o WS \o <<One(Quotes)>>
             \o Lit("http") \o <<Opt({"s"})>> \o Lit("://"), "gi"),
    RegExp("WebSocket", Lit("WebSocket"), "gi"),
    RegExp("EventSource", Lit("EventSource"), "gi"),
    RegExp("FileReader", Lit("FileReader"), "gi"),
    RegExp("FormData", Lit("FormData"), "gi"),
    RegExp("Blob", Lit("Blob"), "gi"),
    RegExp("URL\\.createObjectURL", Lit("URL.createObjectURL"), "gi") >>

DefaultAllowedTags == <<
    "div", "span", "canvas", "script", "style", "p", "h1", "h2", "h3", "h4",
    "h5", "h6", "button", "input", "textarea", "select", "option", "label",
    "form", "img", "audio", "video", "br", "hr", "ul", "ol", "li", "table",
    "tr", "td", "th", "thead", "tbody", "strong", "em", "b", "i", "u", "a" >>

DefaultAllowedAttributes ==
    [any      |-> <<"class", "id", "style", "data-*">>,
     canvas   |-> <<"width", "height">>,
     input    |-> <<"type", "value", "placeholder", "name", "required", "disabled">>,
     button   |-> <<"type", "disabled">>,
     img      |-> <<"src", "alt", "width", "height">>,
     audio    |-> <<"src", "controls", "autoplay", "loop">>,
     video    |-> <<"src", "controls", "autoplay", "loop", "width", "height">>,
     a        |-> <<"href", "target", "rel">>,
     form     |-> <<"action", "method">>,
     select   |-> <<"name", "required", "disabled">>,
     option   |-> <<"value", "selected">>,
     textarea |-> <<"name", "placeholder", "rows", "cols", "required", "disabled">>]

DEFAULT_SECURITY_CONFIG ==
    [allowedTags       |-> DefaultAllowedTags,
     allowedAttributes |-> DefaultAllowedAttributes,
     forbiddenPatterns |-> DefaultForbiddenPatterns,
     maxFileSize       |-> 5 * 1024 * 1024,
     allowedFileTypes  |-> <<"text/html", "text/plain">>]

ArrayIncludes(arr, x) == \E i \in 1..Len(arr) : arr[i] = x

----------------------------------------------------------------------------
(* validateHtmlContent *)

\* one entry of violations or warnings: the tag before the colon, what the
\* message names (pattern source, attribute, tag, URL), the matched excerpts
\* and the sizes of a FILE_TOO_LARGE message
Finding(kind, detail, matches, size, limit) ==
    [kind |-> kind, detail |-> detail, matches |-> matches,
     size |-> size, limit |-> limit]

Min(a, b) == IF a < b THEN a ELSE b

\* the size check also turning away a content that is blank, as
\* validateStringContent does
SizeCheck_RejectsBlank(htmlContent, config) ==
    IF Len(trim(htmlContent)) = 0
    THEN <<Finding("FILE_TOO_LARGE", "", <<>>, 0, config.maxFileSize)>>
    ELSE IF BlobSize(htmlContent) > config.maxFileSize
    THEN <<Finding("FILE_TOO_LARGE", "", <<>>, BlobSize(htmlContent), config.maxFileSize)>>
    ELSE <<>>

\* step 1: security.ts 152-156
SizeCheck(htmlContent, config) ==
    LET contentSize == BlobSize(htmlContent)
    IN  IF contentSize > config.maxFileSize
        THEN <<Finding("FILE_TOO_LARGE", "", <<>>, contentSize, config.maxFileSize)>>
        ELSE <<>>

RECURSIVE PatternScan(_, _, _)
\* step 2: security.ts 158-164, for patterns i.. of the policy
PatternScan(htmlContent, patterns, i) ==
    IF i > Len(patterns) THEN <<>>
    ELSE LET matches == StringMatchGlobal(htmlContent, patterns[i])
         IN  (IF matches # <<>>
              THEN <<Finding("FORBIDDEN_PATTERN", patterns[i].source,
                             SubSeq(matches, 1, Min(3, Len(matches))), 0, 0)>>
              ELSE <<>>)
             \o PatternScan(htmlContent, patterns, i + 1)

\* a search that leaves every lastIndex where it was
LastIndexAfterMatch_Kept(patterns, li) == li

\* String.prototype.match leaves the lastIndex of a global RegExp at 0 and
\* does not touch the lastIndex of another RegExp
LastIndexAfterMatch(patterns, li) ==
    [i \in 1..Len(patterns) |-> IF patterns[i].global THEN 0 ELSE li[i]] \o <<>>

\* the slash of a closing tag left in the tag name
replaceFirst_Nothing(s, pattern, replacement) == s

\* String.prototype.replace(pattern, replacement) with a string pattern:
\* the first occurrence only
RECURSIVE replaceFirst(_, _, _)
replaceFirst(s, pattern, replacement) ==
    IF Len(s) < Len(pattern) \/ Len(pattern) = 0 THEN s
    ELSE IF startsWith(s, pattern)
         THEN replacement \o SubSeq(s, Len(pattern) + 1, Len(s))
         ELSE CharAt(s, 1) \o replaceFirst(SubSeq(s, 2, Len(s)), pattern, replacement)

\* /<(\/?[a-zA-Z][a-zA-Z0-9]*)[^>]*>/g
tagRegex ==
    RegExp("<(\\/?[a-zA-Z][a-zA-Z0-9]*)[^>]*>",
           <<One({"<"}), Opt({"/"}), One(Letters), Star(Letters \cup Digits),
             NotStar({">"}), One({">"})>>, "g")

RECURSIVE TagWarnings(_, _, _)
TagWarnings(htmlContent, config, ms) ==
    IF ms = <<>> THEN <<>>
    ELSE LET tagName == replaceFirst(toLowerCase(Group(htmlContent, ms[1], 2, 4)), "/", "")
         IN  (IF ~ArrayIncludes(config.allowedTags, tagName)
              THEN <<Finding("SUSPICIOUS_TAG", tagName, <<>>, 0, 0)>>
              ELSE <<>>)
             \o TagWarnings(htmlContent, config, Tail(ms))

\* step 3: security.ts 166-178
TagInventory(htmlContent, config) ==
    TagWarnings(htmlContent, config, ExecAll(tagRegex, htmlContent, 0))

\* /<[^>]+\s+([a-zA-Z-]+)\s*=/g
attrRegex ==
    RegExp("<[^>]+\\s+([a-zA-Z-]+)\\s*=",
           <<One({"<"}), NotPlus({">"}), Plus(Whitespace),
             Plus(Letters \cup {"-"}), Star(Whitespace), One({"="})>>, "g")

RECURSIVE AttrViolations(_, _)
AttrViolations(htmlContent, ms) ==
    IF ms = <<>> THEN <<>>
    ELSE LET attrName == toLowerCase(Group(htmlContent, ms[1], 4, 4))
         IN  (IF startsWith(attrName, "on")
              THEN <<Finding("DANGEROUS_ATTRIBUTE", attrName, <<>>, 0, 0)>>
              ELSE <<>>)
             \o (IF includes(htmlContent, attrName \o "=\"javascript:")
                 THEN <<Finding("JAVASCRIPT_PROTOCOL", attrName, <<>>, 0, 0)>>
                 ELSE <<>>)
             \o AttrViolations(htmlContent, Tail(ms))

\* step 4: security.ts 180-196
AttributeInventory(htmlContent) ==
    AttrViolations(htmlContent, ExecAll(attrRegex, htmlContent, 0))

\* RegExp.prototype.test on RegExp re whose lastIndex is li
RegExpTest(re, s, li) ==
    IF re.global
    THEN LET x == RegExpExec(re, s, li)
         IN  [found |-> x.match # <<>>, lastIndex |-> x.lastIndex]
    ELSE [found |-> SearchFrom(re, s, 0) # <<>>, lastIndex |-> li]

RECURSIVE ScriptPatterns(_, _, _, _)
\* security.ts 206-210 for patterns i.. : the violations and the lastIndex
\* each RegExp of the policy is left with
ScriptPatterns(scriptContent, patterns, i, li) ==
    IF i > Len(patterns) THEN [violations |-> <<>>, lastIndex |-> li]
    ELSE LET t == RegExpTest(patterns[i], scriptContent, li[i])
             rest == ScriptPatterns(scriptContent, patterns, i + 1,
                                    [li EXCEPT ![i] = t.lastIndex])
         IN  [violations |->
                 (IF t.found
                  THEN <<Finding("MALICIOUS_SCRIPT", patterns[i].source, <<>>, 0, 0)>>
                  ELSE <<>>) \o rest.violations,
              lastIndex |-> rest.lastIndex]

\* /<script[^>]*>([\s\S]*?)<\/script>/gi
scriptRegex ==
    RegExp("<script[^>]*>([\\s\\S]*?)<\\/script>",
           Lit("<script") \o <<NotStar({">"}), One({">"}), AnyLazyStar>>
             \o Lit("</script>"), "gi")

\* /src\s*=\s*["'`]([^"'`]+)["'`]/i
srcRegex ==
    RegExp("src\\s*=\\s*[\"']([^\"']+)[\"']",
           Lit("src") \o WS \o Lit("=") \o WS
             \o <<One(Quotes), NotPlus(Quotes), One(Quotes)>>, "i")

\* security.ts 212-218
ExternalScript(scriptTag) ==
    IF includes(scriptTag, "src=")
    THEN LET srcMatch == SearchFrom(srcRegex, scriptTag, 0)
         IN  IF srcMatch # <<>> /\ startsWith(Group(scriptTag, srcMatch, 8, 8), "http")
             THEN <<Finding("EXTERNAL_SCRIPT", Group(scriptTag, srcMatch, 8, 8),
                            <<>>, 0, 0)>>
             ELSE <<>>
    ELSE <<>>

RECURSIVE ScriptBlocks(_, _, _, _)
\* step 5: security.ts 198-219 for the script blocks ms
ScriptBlocks(htmlContent, config, ms, li) ==
    IF ms = <<>> THEN [violations |-> <<>>, lastIndex |-> li]
    ELSE LET scriptContent == Group(htmlContent, ms[1], 10, 10)
             inner == ScriptPatterns(scriptContent, config.forbiddenPatterns, 1, li)
             rest == ScriptBlocks(htmlContent, config, Tail(ms), inner.lastIndex)
         IN  [violations |-> inner.violations
                               \o ExternalScript(MatchText(htmlContent, ms[1]))
                               \o rest.violations,
              lastIndex |-> rest.lastIndex]

ScriptScan(htmlContent, config, li) ==
    ScriptBlocks(htmlContent, config, ExecAll(scriptRegex, htmlContent, 0), li)

\* /<style[^>]*>([\s\S]*?)<\/style>/gi
styleRegex ==
    RegExp("<style[^>]*>([\\s\\S]*?)<\\/style>",
           Lit("<style") \o <<NotStar({">"}), One({">"}), AnyLazyStar>>
             \o Lit("</style>"), "gi")

cssJavascriptRegex == RegExp("javascript\\s*:", Lit("javascript") \o WS \o Lit(":"), "gi")
cssExpressionRegex == RegExp("expression\\s*\\(", Lit("expression") \o WS \o Lit("("), "gi")
\* /@import\s+url\s*\(\s*["'`]?https?:/gi
cssImportRegex ==
    RegExp("@import\\s+url\\s*\\(\\s*[\"']?https?:",
           Lit("@import") \o <<Plus(Whitespace)>> \o Lit("url") \o WS \o Lit("(")
             \o WS \o <<Opt(Quotes)>> \o Lit("http") \o <<Opt({"s"})>> \o Lit(":"),
           "gi")

RECURSIVE StyleBlocksFrom(_, _, _)
\* the style loop with its three RegExp objects created once, before the
\* loop: li holds the lastIndex each of them carries into the next block
StyleBlocksFrom(htmlContent, ms, li) ==
    IF ms = <<>> THEN <<>>
    ELSE LET styleContent == Group(htmlContent, ms[1], 9, 9)
             j == RegExpTest(cssJavascriptRegex, styleContent, li[1])
             e == RegExpTest(cssExpressionRegex, styleContent, li[2])
             i == RegExpTest(cssImportRegex, styleContent, li[3])
         IN  (IF j.found THEN <<Finding("CSS_JAVASCRIPT", "", <<>>, 0, 0)>> ELSE <<>>)
             \o (IF e.found THEN <<Finding("CSS_EXPRESSION", "", <<>>, 0, 0)>> ELSE <<>>)
             \o (IF i.found THEN <<Finding("CSS_EXTERNAL_IMPORT", "", <<>>, 0, 0)>>
                 ELSE <<>>)
             \o StyleBlocksFrom(htmlContent, Tail(ms),
                                <<j.lastIndex, e.lastIndex, i.lastIndex>>)

\* a style loop whose RegExp objects are shared by all the blocks
StyleBlocks_SharedRegExp(htmlContent, ms) ==
    StyleBlocksFrom(htmlContent, ms, <<0, 0, 0>>)

RECURSIVE StyleBlocks(_, _)
\* step 6: security.ts 221-242; each test runs on a RegExp object freshly
\* created by its literal (lastIndex 0)
StyleBlocks(htmlContent, ms) ==
    IF ms = <<>> THEN <<>>
    ELSE LET styleContent == Group(htmlContent, ms[1], 9, 9)
         IN  (IF RegExpTest(cssJavascriptRegex, styleContent, 0).found
              THEN <<Finding("CSS_JAVASCRIPT", "", <<>>, 0, 0)>> ELSE <<>>)
             \o (IF RegExpTest(cssExpressionRegex, styleContent, 0).found
                 THEN <<Finding("CSS_EXPRESSION", "", <<>>, 0, 0)>> ELSE <<>>)
             \o (IF RegExpTest(cssImportRegex, styleContent, 0).found
                 THEN <<Finding("CSS_EXTERNAL_IMPORT", "", <<>>, 0, 0)>> ELSE <<>>)
             \o StyleBlocks(htmlContent, Tail(ms))

StyleScan(htmlContent) ==
    StyleBlocks(htmlContent, ExecAll(styleRegex, htmlContent, 0))

\* the style-block violations pushed before the script-block violations
CollectViolations_StylesFirst(size, patterns, attributes, scripts, styles) ==
    size \o patterns \o attributes \o styles \o scripts

\* the scan given up after a size violation
CollectViolations_StopAtSize(size, patterns, attributes, scripts, styles) ==
    IF size # <<>> THEN size
    ELSE size \o patterns \o attributes \o scripts \o styles

\* the script-block violations pushed before the whole-document pattern
\* violations
CollectViolations_ScriptsBeforePatterns(size, patterns, attributes, scripts, styles) ==
    size \o scripts \o patterns \o attributes \o styles

\* the order in which the six steps push their violations (security.ts
\* 152-242): size, whole-document patterns, attributes, script blocks,
\* style blocks
CollectViolations(size, patterns, attributes, scripts, styles) ==
    size \o patterns \o attributes \o scripts \o styles

\* MakeResult with isValid computed from both lists
MakeResult_WarningsCount(htmlContent, violations, warnings) ==
    [isValid |-> Len(violations) + Len(warnings) = 0,
     violations |-> violations,
     warnings |-> warnings,
     sanitizedContent |-> IF Len(violations) = 0 THEN <<htmlContent>> ELSE <<>>]

\* the content handed back whether or not it is valid
MakeResult_AlwaysSanitized(htmlContent, violations, warnings) ==
    [isValid |-> Len(violations) = 0,
     violations |-> violations,
     warnings |-> warnings,
     sanitizedContent |-> <<htmlContent>>]

\* security.ts 244-249; sanitizedContent is <<>> when undefined
MakeResult(htmlContent, violations, warnings) ==
    [isValid |-> Len(violations) = 0,
     violations |-> violations,
     warnings |-> warnings,
     sanitizedContent |-> IF Len(violations) = 0 THEN <<htmlContent>> ELSE <<>>]

\* security.ts 145-250: the returned record and the lastIndex every RegExp
\* of the policy is left with, when they were li at the call
validateHtmlContent(htmlContent, config, li) ==
    LET scripts == ScriptScan(htmlContent, config,
                              LastIndexAfterMatch(config.forbiddenPatterns, li))
        violations ==
            CollectViolations(SizeCheck(htmlContent, config),
                              PatternScan(htmlContent, config.forbiddenPatterns, 1),
                              AttributeInventory(htmlContent),
                              scripts.violations,
                              StyleScan(htmlContent))
        warnings == TagInventory(htmlContent, config)
    IN  [result |-> MakeResult(htmlContent, violations, warnings),
         lastIndex |-> scripts.lastIndex]

\* a validateFile whose checks stop at the first error
validateFile_StopAtFirst(file, config) ==
    LET fileName == toLowerCase(file.name)
        allowedExtensions == <<".html", ".htm", ".txt">>
        hasValidExtension ==
            \E i \in 1..Len(allowedExtensions) : endsWith(fileName, allowedExtensions[i])
        errors == IF file.size > config.maxFileSize
                  THEN <<"file size exceeds limit">>
                  ELSE IF ~ArrayIncludes(config.allowedFileTypes, file.type)
                  THEN <<"unsupported file type">>
                  ELSE IF ~hasValidExtension
                  THEN <<"unsupported file extension">>
                  ELSE <<>>
    IN  [isValid |-> Len(errors) = 0, errors |-> errors,
         size |-> file.size, type |-> file.type]

\* security.ts 255-286 on a File with a name, a type and a size; the three
\* error messages are written in English
validateFile(file, config) ==
    LET fileName == toLowerCase(file.name)
        allowedExtensions == <<".html", ".htm", ".txt">>
        hasValidExtension ==
            \E i \in 1..Len(allowedExtensions) : endsWith(fileName, allowedExtensions[i])
        errors == (IF file.size > config.maxFileSize
                   THEN <<"file size exceeds limit">> ELSE <<>>)
                  \o (IF ~ArrayIncludes(config.allowedFileTypes, file.type)
                      THEN <<"unsupported file type">> ELSE <<>>)
                  \o (IF ~hasValidExtension
                      THEN <<"unsupported file extension">> ELSE <<>>)
    IN  [isValid |-> Len(errors) = 0, errors |-> errors,
         size |-> file.size, type |-> file.type]

\* a validateStringContent that looks for an empty content only when the
\* size is within the limit
validateStringContent_StopAtSize(content, maxSize) ==
    LET contentSize == BlobSize(content)
        errors == IF contentSize > maxSize THEN <<"content size exceeds limit">>
                  ELSE IF Len(trim(content)) = 0 THEN <<"content must not be empty">>
                  ELSE <<>>
    IN  [isValid |-> Len(errors) = 0, errors |-> errors,
         size |-> contentSize, type |-> "text/html"]

\* security.ts 291-314; the two error messages are written in English
validateStringContent(content, maxSize) ==
    LET contentSize == BlobSize(content)
        errors == (IF contentSize > maxSize THEN <<"content size exceeds limit">>
                   ELSE <<>>)
                  \o (IF Len(trim(content)) = 0 THEN <<"content must not be empty">>
                      ELSE <<>>)
    IN  [isValid |-> Len(errors) = 0, errors |-> errors,
         size |-> contentSize, type |-> "text/html"]

RECURSIVE ReplaceMatches(_, _, _, _)
\* s from position `from` on, with the matches ms (in order, not
\* overlapping) replaced
ReplaceMatches(s, ms, from, replacement) ==
    IF ms = <<>> THEN SubSeq(s, from, Len(s))
    ELSE SubSeq(s, from, MatchStart(ms[1]) - 1) \o replacement
         \o ReplaceMatches(s, Tail(ms), MatchEnd(ms[1]) + 1, replacement)

\* String.prototype.replace with a global RegExp and a string without $:
\* every match found by one left-to-right pass over s is replaced
StringReplaceGlobal(s, re, replacement) ==
    ReplaceMatches(s, ExecAll(re, s, 0), 1, replacement)

\* the class \w
WordChars == Letters \cup Digits \cup {"_"}

\* /\s+on\w+\s*=\s*["'][^"']*["']/gi
eventHandlerRegex ==
    RegExp("\\s+on\\w+\\s*=\\s*[\"'][^\"']*[\"']",
           <<Plus(Whitespace)>> \o Lit("on")
             \o <<Plus(WordChars), Star(Whitespace), One({"="}), Star(Whitespace),
                  One(Quotes), NotStar(Quotes), One(Quotes)>>, "gi")

\* /javascript\s*:/gi
javascriptRegex ==
    RegExp("javascript\\s*:",
           Lit("javascript") \o <<Star(Whitespace), One({":"})>>, "gi")

\* /style\s*=\s*["'][^"']*expression\s*\([^"']*["']/gi
styleExpressionRegex ==
    RegExp("style\\s*=\\s*[\"'][^\"']*expression\\s*\\([^\"']*[\"']",
           Lit("style") \o <<Star(Whitespace), One({"="}), Star(Whitespace),
                             One(Quotes), NotStar(Quotes)>>
             \o Lit("expression")
             \o <<Star(Whitespace), One({"("}), NotStar(Quotes),
                  One(Quotes)>>, "gi")

\* security.ts 319-335
sanitizeHtmlContent(htmlContent) ==
    LET noHandlers == StringReplaceGlobal(htmlContent, eventHandlerRegex, "")
        noProtocol == StringReplaceGlobal(noHandlers, javascriptRegex, "")
    IN  StringReplaceGlobal(noProtocol, styleExpressionRegex, "")

\* a report that gives the advice on warnings only when there is no violation
generateSecurityReport_EitherAdvice(htmlContent, config, li) ==
    LET v == validateHtmlContent(htmlContent, config, li)
        details == v.result
        recommendations ==
            IF Len(details.violations) > 0
            THEN <<"fix all violations and resubmit",
                   "avoid external resources and network requests",
                   "use safe DOM manipulation">>
            ELSE IF Len(details.warnings) > 0
            THEN <<"review the warnings", "consider safer alternatives">>
            ELSE <<>>
        summary == IF details.isValid
                   THEN [text |-> "content passed security check", count |-> 0]
                   ELSE [text |-> "found security issues",
                         count |-> Len(details.violations)]
    IN  [report |-> [summary |-> summary, details |-> details,
                     recommendations |-> recommendations],
         lastIndex |-> v.lastIndex]

\* security.ts 340-371; the messages are written in English here
generateSecurityReport(htmlContent, config, li) ==
    LET v == validateHtmlContent(htmlContent, config, li)
        details == v.result
        recommendations ==
            (IF Len(details.violations) > 0
             THEN <<"fix all violations and resubmit",
                    "avoid external resources and network requests",
                    "use safe DOM manipulation">>
             ELSE <<>>)
            \o (IF Len(details.warnings) > 0
                THEN <<"review the warnings", "consider safer alternatives">>
                ELSE <<>>)
        summary == IF details.isValid
                   THEN [text |-> "content passed security check", count |-> 0]
                   ELSE [text |-> "found security issues",
                         count |-> Len(details.violations)]
    IN  [report |-> [summary |-> summary, details |-> details,
                     recommendations |-> recommendations],
         lastIndex |-> v.lastIndex]

----------------------------------------------------------------------------
(* POST /api/games (app/api/games/route.ts) *)

\* gameSubmissionSchema (validation.ts 4-26) on a body that holds a title and
\* an htmlContent; the optional fields are absent.  maxLength is the number
\* of characters htmlContent may have (validation.ts 19)
SchemaParse(body, maxLength) ==
    [success |-> /\ Len(body.title) >= 1
                 /\ Len(body.title) <= 255
                 /\ Len(body.htmlContent) >= 1
                 /\ Len(body.htmlContent) <= maxLength,
     data |-> [title |-> trim(body.title), htmlContent |-> body.htmlContent]]

\* gameSubmissionSchema.safeParse
safeParse(body) == SchemaParse(body, 5 * 1024 * 1024)

\* a handler that also turns away a content with warnings
PassesSecurity_NoWarnings(securityValidation) ==
    securityValidation.isValid /\ securityValidation.warnings = <<>>

\* route.ts 102: the test that lets the handler go on to create the game
PassesSecurity(securityValidation) == securityValidation.isValid

Response(status, error, violations, warnings) ==
    [status |-> status, error |-> error, violations |-> violations,
     warnings |-> warnings]

\* route.ts 68-166 on request body `body`, with the policy's RegExp objects
\* at lastIndex li, the games table holding `table`, and GameDAL.create
\* throwing when dbFails.  scan is what validateHtmlContent(htmlContent)
\* returns and leaves in the RegExp objects at line 101, if the handler gets
\* there.  steps lists the functions the handler called.
POST(body, scan, li, table, dbFails) ==
    LET validation == safeParse(body)
        htmlContent == validation.data.htmlContent
        contentValidation ==
            validateStringContent(htmlContent, DEFAULT_SECURITY_CONFIG.maxFileSize)
        securityValidation == scan.result
        newGame == [id |-> Len(table) + 1,
                    title |-> trim(validation.data.title),
                    htmlContent |-> htmlContent,
                    status |-> "pending"]
    IN  IF ~validation.success
        THEN [response |-> Response(400, "VALIDATION_ERROR", <<>>, <<>>),
              steps |-> <<"safeParse">>,
              result |-> MakeResult("", <<>>, <<>>), lastIndex |-> li,
              table |-> table]
        ELSE IF ~contentValidation.isValid
        THEN [response |-> Response(400, "FILE_TOO_LARGE", <<>>, <<>>),
              steps |-> <<"safeParse", "validateStringContent">>,
              result |-> MakeResult("", <<>>, <<>>), lastIndex |-> li,
              table |-> table]
        ELSE IF ~PassesSecurity(securityValidation)
        THEN [response |-> Response(400, "MALICIOUS_CONTENT",
                                    securityValidation.violations,
                                    securityValidation.warnings),
              steps |-> <<"safeParse", "validateStringContent",
                          "validateHtmlContent">>,
              result |-> securityValidation, lastIndex |-> scan.lastIndex,
              table |-> table]
        ELSE IF dbFails
        THEN [response |-> Response(500, "DATABASE_ERROR", <<>>, <<>>),
              steps |-> <<"safeParse", "validateStringContent",
                          "validateHtmlContent", "GameDAL.create">>,
              result |-> securityValidation, lastIndex |-> scan.lastIndex,
              table |-> table]
        ELSE [response |-> Response(201, "", <<>>, securityValidation.warnings),
              steps |-> <<"safeParse", "validateStringContent",
                          "validateHtmlContent", "GameDAL.create">>,
              result |-> securityValidation, lastIndex |-> scan.lastIndex,
              table |-> Append(table, newGame)]

----------------------------------------------------------------------------
(* GameSubmissionForm (components/GameSubmissionForm.tsx).  A handler gets *)
(* the component's state f, the policy object config that                  *)
(* DEFAULT_SECURITY_CONFIG names, the lastIndex values li of its RegExp    *)
(* objects, and scan: what validateHtmlContent returns and leaves in them  *)
(* if the handler gets to its call.  steps lists the functions called.     *)

\* useForm's defaultValues (36-41) and the useState values (22-25)
DefaultValues ==
    [title |-> "", htmlContent |-> "", uploadedFile |-> <<>>,
     securityWarnings |-> <<>>]

Handled(f, steps, securityValidation, li) ==
    [form |-> f, steps |-> steps, result |-> securityValidation, lastIndex |-> li]

\* GameSubmissionForm.tsx 47-105; files is event.target.files, the read of
\* file.text() throws when readFails
handleFileUpload(files, readFails, scan, li, f, config) ==
    IF files = <<>> THEN Handled(f, <<>>, MakeResult("", <<>>, <<>>), li)
    ELSE
    LET file == files[1]
        fileValidation == validateFile(file, config)
        content == file.text
        contentValidation == validateStringContent(content, config.maxFileSize)
        securityValidation == scan.result
    IN  IF ~fileValidation.isValid
        THEN Handled(f, <<"validateFile">>, MakeResult("", <<>>, <<>>), li)
        ELSE IF readFails
        THEN Handled(f, <<"validateFile", "file.text">>, MakeResult("", <<>>, <<>>), li)
        ELSE IF ~contentValidation.isValid
        THEN Handled(f, <<"validateFile", "file.text", "validateStringContent">>,
                     MakeResult("", <<>>, <<>>), li)
        ELSE IF ~securityValidation.isValid
        THEN Handled(f, <<"validateFile", "file.text", "validateStringContent",
                          "validateHtmlContent">>,
                     securityValidation, scan.lastIndex)
        ELSE Handled([f EXCEPT !.uploadedFile = <<file>>,
                               !.htmlContent = content,
                               !.securityWarnings = securityValidation.warnings],
                     <<"validateFile", "file.text", "validateStringContent",
                       "validateHtmlContent">>,
                     securityValidation, scan.lastIndex)

\* GameSubmissionForm.tsx 108-125
handleHtmlContentChange(content, scan, li, f, config) ==
    LET set == [f EXCEPT !.htmlContent = content]
        contentValidation == validateStringContent(content, config.maxFileSize)
        securityValidation == scan.result
    IN  IF Len(trim(content)) = 0
        THEN Handled([set EXCEPT !.securityWarnings = <<>>], <<>>,
                     MakeResult("", <<>>, <<>>), li)
        ELSE IF ~contentValidation.isValid
        THEN Handled([set EXCEPT !.securityWarnings = <<>>],
                     <<"validateStringContent">>, MakeResult("", <<>>, <<>>), li)
        ELSE Handled([set EXCEPT !.securityWarnings = securityValidation.warnings],
                     <<"validateStringContent", "validateHtmlContent">>,
                     securityValidation, scan.lastIndex)

\* GameSubmissionForm.tsx 204 and 128-189: handleSubmit runs the resolver of
\* gameSubmissionSchema on the form's values and calls onSubmit with the
\* parsed data when it succeeds.  maxLength is the schema's limit on the
\* characters of htmlContent; the response of the server has response.ok = ok
onSubmit(scan, ok, li, f, config, maxLength) ==
    LET validation ==
            SchemaParse([title |-> f.title, htmlContent |-> f.htmlContent], maxLength)
        securityValidation == scan.result
    IN  IF ~validation.success
        THEN Handled(f, <<"zodResolver">>, MakeResult("", <<>>, <<>>), li)
        ELSE IF ~securityValidation.isValid
        THEN Handled(f, <<"zodResolver", "validateHtmlContent">>,
                     securityValidation, scan.lastIndex)
        ELSE IF ~ok
        THEN Handled(f, <<"zodResolver", "validateHtmlContent", "fetch">>,
                     securityValidation, scan.lastIndex)
        ELSE Handled(DefaultValues, <<"zodResolver", "validateHtmlContent", "fetch">>,
                     securityValidation, scan.lastIndex)

----------------------------------------------------------------------------
(* Admin authentication (lib/auth) and the handlers behind it.  A request  *)
(* holds its Authorization header as <<>> (absent) or <<value>>; a column  *)
(* that is NULL holds Null.                                                *)

Null == "NULL"

\* process.env.ADMIN_SECRET || 'admin-secret-key' with the variable unset
ADMIN_SECRET == "admin-secret-key"

\* an isAdminAuthenticated that takes the prefix in any letter case
isAdminAuthenticated_AnyCasePrefix(request) ==
    LET authHeader == request.authorization
    IN  IF authHeader = <<>> \/ authHeader = <<"">> THEN FALSE
        ELSE LET token == IF startsWith(toLowerCase(authHeader[1]), "bearer ")
                          THEN SubSeq(authHeader[1], 8, Len(authHeader[1]))
                          ELSE authHeader[1]
             IN  token = ADMIN_SECRET

\* auth 7-20
isAdminAuthenticated(request) ==
    LET authHeader == request.authorization
    IN  IF authHeader = <<>> \/ authHeader = <<"">> THEN FALSE
        ELSE LET token == IF startsWith(authHeader[1], "Bearer ")
                          THEN SubSeq(authHeader[1], 8, Len(authHeader[1]))
                          ELSE authHeader[1]
             IN  token = ADMIN_SECRET

\* auth 45-53
getAdminIdentity(request) ==
    IF request.authorization # <<>> /\ request.authorization # <<"">>
       /\ isAdminAuthenticated(request)
    THEN "admin" ELSE "unknown"

\* auth 56-74
validateAdminAccess(request) ==
    IF ~isAdminAuthenticated(request)
    THEN [isValid |-> FALSE, adminId |-> "", error |-> "unauthorized access"]
    ELSE [isValid |-> TRUE, adminId |-> getAdminIdentity(request), error |-> ""]

\* what a request was answered with: the status, the error and the data
\* of the body (<<>> when there is none)
Answer(status, error, data) == [status |-> status, error |-> error, data |-> data]

\* auth 26-37: the answer of requireAdmin to a request it turns away
Unauthorized == Answer(401, "Unauthorized", <<>>)

\* auth 23-42: requireAdmin(handler) on a request, `handled` being what the
\* handler does with it.  called: the handler was called
requireAdmin(request, handled) ==
    IF ~isAdminAuthenticated(request)
    THEN [called |-> FALSE, answer |-> <<Unauthorized>>]
    ELSE [called |-> TRUE, answer |-> handled]

\* GameDAL.getById (dal.ts 33-40): the row with this id as <<row>>, or <<>>
getById(table, id) == SelectSeq(table, LAMBDA g : g.id = id)

\* the values of the status column (design document: ENUM('pending',
\* 'approved', 'rejected'))
GameStatuses == {"pending", "approved", "rejected"}

\* GameDAL.updateStatus (dal.ts 172-199) up to its UPDATE statement, on the
\* games table `table`.  A status that is not a value of the ENUM column
\* makes the statement fail when the server's SQL mode `mode` is strict and is
\* stored as the empty string otherwise; an undefined rejectionReason is
\* left out of the SET clause.  threw: the function threw
updateStatus(table, id, status, approvedBy, rejectionReason, mode) ==
    LET stored == IF status \in GameStatuses THEN status ELSE ""
        Set(g) ==
            IF status = "approved"
            THEN [g EXCEPT !.status = stored, !.approvedAt = "now",
                           !.approvedBy = IF approvedBy = <<>> THEN @
                                          ELSE approvedBy[1],
                           !.rejectionReason = Null]
            ELSE IF status = "rejected"
            THEN [g EXCEPT !.status = stored,
                           !.rejectionReason = IF rejectionReason = <<>> THEN @
                                               ELSE rejectionReason[1],
                           !.approvedAt = Null, !.approvedBy = Null]
            ELSE [g EXCEPT !.status = stored]
    IN  IF status \notin GameStatuses /\ mode = "strict"
        THEN [threw |-> TRUE, table |-> table]
        ELSE [threw |-> FALSE,
              table |-> [i \in 1..Len(table) |->
                            IF table[i].id = id THEN Set(table[i]) ELSE table[i]]
                        \o <<>>]

\* ReviewLogDAL.create (dal.ts 287-298): the row inserted into review_logs
NewReviewLog(logs, gameId, action, reason, reviewer) ==
    [id |-> Len(logs) + 1, gameId |-> gameId, action |-> action,
     reason |-> reason, reviewer |-> reviewer]

\* reviewRequestSchema.safeParse (admin/review/route.ts 7-13, 65): gameId a
\* non-empty string, action approve or reject, reason an optional string
\* (<<>> when absent)
reviewRequestSchema(body) ==
    [success |-> Len(body.gameId) >= 1 /\ body.action \in {"approve", "reject"},
     data |-> body]

\* admin/review/route.ts 61-89, the handler up to its first query: the
\* answer, or <<>> when it goes on to GameDAL.getById
ReviewHandler(request) ==
    IF ~reviewRequestSchema(request.body).success
    THEN <<Answer(400, "invalid request", <<>>)>>
    ELSE IF ~validateAdminAccess(request).isValid
    THEN <<Answer(401, validateAdminAccess(request).error, <<>>)>>
    ELSE <<>>

\* admin/review/route.ts 60: POST is requireAdmin(handler)
ReviewReceive(request) == requireAdmin(request, ReviewHandler(request))

\* a reason check that only looks for a missing reason
ReasonMissing_AbsentOnly(action, reason) ==
    action = "reject" /\ reason = <<>>

\* admin/review/route.ts 115: action === 'reject' && (!reason ||
\* reason.trim().length === 0)
ReasonMissing(action, reason) ==
    action = "reject" /\ (reason = <<>> \/ Len(reason[1]) = 0 \/ Len(trim(reason[1])) = 0)

\* a check that lets every game that exists through
ReviewCheck_AnyStatus(existingGame, action, reason) ==
    IF existingGame = <<>> THEN <<Answer(404, "game not found", <<>>)>>
    ELSE IF ReasonMissing(action, reason)
    THEN <<Answer(400, "reason required", <<>>)>>
    ELSE <<>>

\* admin/review/route.ts 93-123 on what GameDAL.getById returned: the answer
\* that ends the request, or <<>> when the handler goes on to update
ReviewCheck(existingGame, action, reason) ==
    IF existingGame = <<>> THEN <<Answer(404, "game not found", <<>>)>>
    ELSE IF existingGame[1].status # "pending"
    THEN <<Answer(400, "already reviewed", <<>>)>>
    ELSE IF ReasonMissing(action, reason)
    THEN <<Answer(400, "reason required", <<>>)>>
    ELSE <<>>

\* validation.ts 73-78: a string of the form 8-4-4-4-12 in hexadecimal digits
gameIdSchema(id) ==
    /\ Len(id) = 36
    /\ \A i \in 1..36 :
           IF i \in {9, 14, 19, 24} THEN CharAt(id, i) = "-"
           ELSE CharAt(id, i) \in Digits \cup {"a", "b", "c", "d", "e", "f",
                                               "A", "B", "C", "D", "E", "F"}

\* GameDAL.getByIdWithMetadata (dal.ts 43-58) for a row
WithMetadata(game) ==
    [game |-> game,
     isApproved |-> game.status = "approved",
     isPending |-> game.status = "pending",
     isRejected |-> game.status = "rejected",
     canBeShared |-> game.status = "approved"]

\* a handler that shows every game that exists
GetGame_AnyStatus(request, table) ==
    IF ~gameIdSchema(request.id) THEN Answer(400, "VALIDATION_ERROR", <<>>)
    ELSE LET isAdmin == isAdminAuthenticated(request)
             found == getById(table, request.id)
         IN  IF found = <<>> THEN Answer(404, "GAME_NOT_FOUND", <<>>)
             ELSE Answer(200, "", <<[game |-> WithMetadata(found[1]),
                                     adminView |-> isAdmin]>>)

\* GET /api/games/[id] (games/[id]/route.ts, lines 181-245 of the listing)
GetGame(request, table) ==
    IF ~gameIdSchema(request.id) THEN Answer(400, "VALIDATION_ERROR", <<>>)
    ELSE LET isAdmin == isAdminAuthenticated(request)
             found == getById(table, request.id)
         IN  IF found = <<>> THEN Answer(404, "GAME_NOT_FOUND", <<>>)
             ELSE IF ~isAdmin /\ found[1].status # "approved"
             THEN Answer(404, "GAME_NOT_FOUND", <<>>)
             ELSE Answer(200, "", <<[game |-> WithMetadata(found[1]),
                                     adminView |-> isAdmin]>>)

\* GET /api/admin/review/logs (admin/review/logs/route.ts 6-31) without its
\* query parameters: all the logs, behind requireAdmin
GetLogs(request, logs) == requireAdmin(request, <<Answer(200, "", <<logs>>)>>)

----------------------------------------------------------------------------
(* Policies and contents of the model *)

\* the byte limit of the second policy
SmallLimit == 40

\* the number of rows the games table can take
MaxGames == 2

\* { ...DEFAULT_SECURITY_CONFIG, maxFileSize: SmallLimit }: the spread copies
\* the reference to the forbiddenPatterns array, so both policies hold the
\* same RegExp objects
Configs ==
    [default |-> DEFAULT_SECURITY_CONFIG,
     small   |-> [DEFAULT_SECURITY_CONFIG EXCEPT !.maxFileSize = SmallLimit]]

ConfigNames == {"default", "small"}

ZeroLastIndex == [i \in 1..Len(DefaultForbiddenPatterns) |-> 0] \o <<>>

NoResult == MakeResult("", <<>>, <<>>)
NoCall == [fn |-> "none", content |-> "", config |-> "default", steps |-> <<>>,
           repeat |-> FALSE]
NoReport == [summary |-> [text |-> "", count |-> 0], recommendations |-> <<>>]
NoResponse == Response(0, "", <<>>, <<>>)
NoAnswered == [route |-> "none", request |-> <<>>, called |-> FALSE,
               answer |-> Answer(0, "", <<>>), steps |-> <<>>]
adminVars == <<reviewLogs, requests, sqlMode, answered>>

\* contents of the calls that share the policy object over a whole run
SharedContents ==
    {"<p>ok</p>",
     "<object></object>",
     "<script>fetch(1)</script>",
     "<script>x=1;</script><script>fetch(2)</script>",
     "<script>eval(a);fetch(1)</script><script>eval(b)</script>",
     "<object></object><script> eval (c) </script>"}

\* pieces of the contents scanned one at a time
Fragments ==
    {"",
     "  \n",
     " \t\r\n \t\r\n \t\r\n \t\r\n \t\r\n ",
     "<P>hi</p>",
     "<canvas width=\"8\"></canvas>",
     "price: 5€ café",
     "<object data=\"a.swf\"></object>",
     "<script>fetch(1)</script>",
     "<script>eval(x);   fetch (2)</script>",
     "<button onclick=\"a()\">x</button>",
     "<button onclick=\"a()\" class=\"b\">x</button>",
     "<div id=\"d\" ONLOAD='a()' class=\"b\"></div>",
     "<a href=\"javascript:a()\">x</a>",
     "<a href='javascript:a()'>x</a>",
     "<a HREF=\"javascript:a()\">x</a>",
     "<a href=javascript:a()>x</a>",
     "<script src=\"https://e.io/x.js\"></script>",
     "<script src=\"http://e.io/x.js\">",
     "<script SRC = 'http://e.io/x.js'></script>",
     "<style>a{width:expression(1)}</style>",
     "<style>b{background:url(javascript:1)}</style>",
     "<style>@import url(http://e.io/c.css);</style>",
     "<embed onplay=\"a()\"><style>x{y:expression(1)}</style><script>eval(1);fetch(2)</script>"}

ScanContents == {a \o b : a \in Fragments, b \in Fragments}

PostTitles == {"", " Tic "}
PostContents ==
    {"", "  ", "<p>ok</p>", "<object></object>", "<script>fetch(1)</script>",
     "<b onclick=\"a()\">x</b>", "<canvas></canvas>", "<i>5€</i>"}

Init ==
    /\ lastIndex = ZeroLastIndex
    /\ call = NoCall
    /\ result = NoResult
    /\ report = NoReport
    /\ first = <<>>
    /\ before = ZeroLastIndex
    /\ games = <<>>
    /\ response = NoResponse
    /\ form = DefaultValues
    /\ reviewLogs = <<>>
    /\ requests = <<>>
    /\ sqlMode = "strict"
    /\ answered = NoAnswered

\* validateHtmlContent(c, Configs[cfg]) returns v
ValidateReturns(c, cfg, v) ==
    LET this == [fn |-> "validate", content |-> c, config |-> cfg, steps |-> <<>>,
                 repeat |-> <<c, cfg>> \in DOMAIN first]
    IN  /\ call' = this
        /\ result' = v.result
        /\ report' = NoReport
        /\ before' = lastIndex
        /\ lastIndex' = v.lastIndex
        /\ first' = IF this.repeat THEN first
                    ELSE first @@ (<<c, cfg>> :> v.result)
        /\ UNCHANGED <<games, response, form>>
        /\ UNCHANGED adminVars

\* a call validateHtmlContent(c, Configs[cfg]) on the module's policy object
Validate(c, cfg) ==
    \E v \in Only(validateHtmlContent(c, Configs[cfg], lastIndex)) :
        ValidateReturns(c, cfg, v)

\* a call generateSecurityReport(c, Configs[cfg])
Report(c, cfg) ==
    \E g \in Only(generateSecurityReport(c, Configs[cfg], lastIndex)) :
    LET this == [fn |-> "report", content |-> c, config |-> cfg, steps |-> <<>>,
                 repeat |-> <<c, cfg>> \in DOMAIN first]
    IN  /\ call' = this
        /\ result' = g.report.details
        /\ report' = [summary |-> g.report.summary,
                      recommendations |-> g.report.recommendations]
        /\ before' = lastIndex
        /\ lastIndex' = g.lastIndex
        /\ first' = IF this.repeat THEN first
                    ELSE first @@ (<<c, cfg>> :> g.report.details)
        /\ UNCHANGED <<games, response, form>>
        /\ UNCHANGED adminVars

\* a request POST /api/games
Post(body, dbFails) ==
    \E scan \in Only(validateHtmlContent(body.htmlContent,
                                          DEFAULT_SECURITY_CONFIG, lastIndex)) :
    \E r \in {POST(body, scan, lastIndex, games, dbFails)} :
        /\ Len(games) < MaxGames
        /\ call' = [fn |-> "post", content |-> body.htmlContent,
                    config |-> "default", steps |-> r.steps, repeat |-> FALSE]
        /\ result' = r.result
        /\ response' = r.response
        /\ games' = r.table
        /\ before' = lastIndex
        /\ lastIndex' = r.lastIndex
        /\ UNCHANGED <<report, first, form>>
        /\ UNCHANGED adminVars

ValidateShared == \E c \in SharedContents : Validate(c, "default")
ReportShared == \E c \in SharedContents : Report(c, "default")

Next == ValidateShared \/ ReportShared

\* any number of calls, one after the other, on the shared default policy
Spec == Init /\ [][Next]_vars

\* the first call of validateHtmlContent of a run
ScanOnce ==
    \E c \in ScanContents, cfg \in ConfigNames :
        \E v \in Only(validateHtmlContent(c, Configs[cfg], lastIndex)) :
            /\ call = NoCall
            /\ ValidateReturns(c, cfg, v)

\* one call of validateHtmlContent on a content and a policy
ScanSpec == Init /\ [][ScanOnce]_vars

PostBodies == [title : PostTitles, htmlContent : PostContents]
PostStored == \E body \in PostBodies : Post(body, FALSE)
PostDbError == \E body \in PostBodies : Post(body, TRUE)

PostNext == PostStored \/ PostDbError

\* requests POST /api/games, one after the other
PostSpec == Init /\ [][PostNext]_vars

\* pieces of the contents given to sanitizeHtmlContent
SanitizeFragments ==
    { "", "<p>ok</p>", "java", "script:", "JavaScript :",
      "javajavascript:script:",
      "<a href=\"javascript:a()\">x</a>",
      "<b onclick=\"a()\">x</b>",
      "<b onclick='a()'>x</b>",
      "<b onclick=a()>x</b>",
      "<b onclick=\"a('b')\">x</b>",
      "<p ONLOAD = \"a()\">",
      "<p\nonload\n=a>",
      "<div style=\"width: expression(1)\">x</div>",
      "javastyle='expression(1)'script:" }

SanitizeContents == {a \o b : a \in SanitizeFragments, b \in SanitizeFragments}

\* a call sanitizeHtmlContent(c)
Sanitize ==
    \E c \in SanitizeContents :
    \E out \in {sanitizeHtmlContent(c)} :
        /\ call' = [fn |-> "sanitize", content |-> c, config |-> "default",
                    steps |-> <<>>, repeat |-> FALSE]
        /\ result' = out
        /\ UNCHANGED <<lastIndex, report, first, before, games, response, form>>
        /\ UNCHANGED adminVars

\* calls of sanitizeHtmlContent, in any order
SanitizeSpec == Init /\ [][Sanitize]_vars

\* the File objects given to validateFile: name, type and size
FileNames == {"game.html", "GAME.HTM", "notes.Txt", "game.js", "html", "a.html.exe"}
FileTypes == {"text/html", "text/plain", "application/javascript", ""}
FileSizes == {0, SmallLimit, SmallLimit + 1, 5 * 1024 * 1024, 5 * 1024 * 1024 + 1}
Files == [name : FileNames, type : FileTypes, size : FileSizes]

\* the arguments given to validateStringContent
StringContents ==
    {"", "  ", " \n\t ", "<p>ok</p>", "<i>5€</i>", " é ", "€€€€",
     " \t\r\n \t\r\n \t\r\n \t\r\n \t\r\n \t\r\n \t\r\n \t\r\n \t\r\n \t\r\n \t\r\n "}
StringLimits == {0, 1, 10, 11, 12, SmallLimit, DEFAULT_SECURITY_CONFIG.maxFileSize}

\* a call validateFile(file, Configs[cfg])
ValidateFileCall ==
    \E file \in Files, cfg \in ConfigNames :
        /\ call' = [fn |-> "validateFile", content |-> file, config |-> cfg,
                    steps |-> <<>>, repeat |-> FALSE]
        /\ result' = validateFile(file, Configs[cfg])
        /\ UNCHANGED <<lastIndex, report, first, before, games, response, form>>
        /\ UNCHANGED adminVars

\* a call validateStringContent(content, maxSize); the call keeps both
\* arguments
ValidateStringCall ==
    \E content \in StringContents, maxSize \in StringLimits :
        /\ call' = [fn |-> "validateStringContent", content |-> <<content, maxSize>>,
                    config |-> "default", steps |-> <<>>, repeat |-> FALSE]
        /\ result' = validateStringContent(content, maxSize)
        /\ UNCHANGED <<lastIndex, report, first, before, games, response, form>>
        /\ UNCHANGED adminVars

FileNext == ValidateFileCall \/ ValidateStringCall

\* calls of validateFile and validateStringContent, in any order
FileSpec == Init /\ [][FileNext]_vars

\* the build of the form: DEFAULT_SECURITY_CONFIG and the schema's limit on
\* htmlContent (both 5 * 1024 * 1024 in the source) scaled down to SmallLimit
FormConfig == "small"
FormMaxLength == Configs[FormConfig].maxFileSize

\* contents pasted or uploaded: blank, clean, with a warning, with a
\* violation, over the limit in bytes but not in characters (without and
\* with a forbidden pattern), over the limit in characters
FormContents ==
    {"  ", "<p>ok</p>", "<object></object>", "<script>fetch(1)</script>",
     "<i>€€€€€€€€€€€€</i>",
     "<script>fetch(1)</script>€€€€€€",
     "<p>aaaaaaaaaaaaaaaaaaaaaaaaaaaaaaaaaaaaaa</p>"}

\* the files chosen in the file input; a File's size is the byte length of
\* its text
FormFiles ==
    {[name |-> n, type |-> "text/html", size |-> BlobSize(t), text |-> t] :
        n \in {"game.html", "game.exe"}, t \in FormContents}

\* the user types a title (the input registered at GameSubmissionForm.tsx 210)
TypeTitle ==
    \E t \in PostTitles :
        /\ t # form.title
        /\ form' = [form EXCEPT !.title = t]
        /\ call' = [fn |-> "title", content |-> t, config |-> FormConfig,
                    steps |-> <<>>, repeat |-> FALSE]
        /\ result' = NoResult
        /\ UNCHANGED <<lastIndex, report, first, before, games, response>>
        /\ UNCHANGED adminVars

\* the handler returned r
FormHandled(fn, content, r) ==
    /\ call' = [fn |-> fn, content |-> content, config |-> FormConfig,
                steps |-> r.steps, repeat |-> FALSE]
    /\ result' = r.result
    /\ form' = r.form
    /\ before' = lastIndex
    /\ lastIndex' = r.lastIndex
    /\ UNCHANGED <<report, first, games, response>>
    /\ UNCHANGED adminVars

\* the user chooses a file: onChange of the file input (294)
Upload ==
    \E file \in FormFiles, readFails \in BOOLEAN :
    \E scan \in Only(validateHtmlContent(file.text, Configs[FormConfig],
                                          lastIndex)) :
    \E r \in {handleFileUpload(<<file>>, readFails, scan, lastIndex, form,
                               Configs[FormConfig])} :
        FormHandled("handleFileUpload", file.text, r)

\* the user closes the file dialog without a file
UploadNothing ==
    \E scan \in {[result |-> NoResult, lastIndex |-> lastIndex]} :
    \E r \in {handleFileUpload(<<>>, FALSE, scan, lastIndex, form,
                               Configs[FormConfig])} :
        /\ call.fn # "handleFileUpload" \/ call.steps # <<>>
        /\ FormHandled("handleFileUpload", "", r)

\* the user changes the text area: onChange of the Textarea (278)
Paste ==
    \E content \in FormContents \cup {""} :
    \E scan \in Only(validateHtmlContent(content, Configs[FormConfig],
                                          lastIndex)) :
    \E r \in {handleHtmlContentChange(content, scan, lastIndex, form,
                                      Configs[FormConfig])} :
        FormHandled("handleHtmlContentChange", content, r)

\* the user submits the form (204); the server answers with response.ok = ok
Submit ==
    \E content \in FormContents \cup {""}, ok \in BOOLEAN :
    \E scan \in Only(validateHtmlContent(content, Configs[FormConfig],
                                          lastIndex)) :
    \E r \in {onSubmit(scan, ok, lastIndex, form, Configs[FormConfig],
                       FormMaxLength)} :
        /\ form.htmlContent = content
        /\ FormHandled("onSubmit", content, r)

\* the Reset button (340-344)
Reset ==
    /\ form # DefaultValues
    /\ form' = DefaultValues
    /\ call' = [fn |-> "reset", content |-> "", config |-> FormConfig,
                steps |-> <<>>, repeat |-> FALSE]
    /\ result' = NoResult
    /\ UNCHANGED <<lastIndex, report, first, before, games, response>>
    /\ UNCHANGED adminVars

FormNext == TypeTitle \/ Upload \/ UploadNothing \/ Paste \/ Submit \/ Reset

\* the events of one GameSubmissionForm, one after the other
FormSpec == Init /\ [][FormNext]_vars

\* ids of the games table, an id no row has, and a string that is no uuid
G1 == "11111111-1111-4111-8111-111111111111"
G2 == "22222222-2222-4222-8222-222222222222"
UnknownId == "99999999-9999-4999-8999-999999999999"
BadId == "valid-game-id"

\* a row of the games table as the database can hold it in this status
Row(id, status) ==
    [id |-> id, title |-> "Snake", htmlContent |-> "<canvas></canvas>",
     status |-> status,
     approvedAt |-> IF status = "approved" THEN "earlier" ELSE Null,
     approvedBy |-> IF status = "approved" THEN "admin" ELSE Null,
     rejectionReason |-> IF status = "rejected" THEN "broken" ELSE Null]

\* Authorization headers of the requests
Headers == {<<>>, <<"">>, <<"admin-secret-key">>, <<"Bearer admin-secret-key">>,
            <<"Bearer wrong">>, <<"bearer admin-secret-key">>}

\* bodies of the requests POST /api/admin/review: a decision on a game, with
\* or without a reason, a body without a game id and one with another action
ReviewBodies ==
    [gameId : {G1, G2, UnknownId}, action : {"approve"},
     reason : {<<>>, <<"cheats">>}]
    \cup [gameId : {G1, G2, UnknownId}, action : {"reject"},
          reason : {<<>>, <<"">>, <<"  ">>, <<"cheats">>}]
    \cup {[gameId |-> "", action |-> "approve", reason |-> <<>>],
          [gameId |-> G1, action |-> "delete", reason |-> <<>>]}

\* the requests: every body from the admin, two of them from anyone else
ReviewRequests ==
    {r \in [authorization : Headers, body : ReviewBodies] :
        \/ isAdminAuthenticated(r)
        \/ r.body \in {[gameId |-> G1, action |-> "approve", reason |-> <<>>],
                       [gameId |-> G1, action |-> "reject", reason |-> <<"cheats">>]}}

\* requests for the same game by the admin, at the same time
RaceRequests == [authorization : {<<"Bearer admin-secret-key">>},
                 body : [gameId : {G1}, action : {"approve", "reject"},
                         reason : {<<"cheats">>}]]

\* the number of requests POST /api/admin/review handled at the same time
MaxInFlight == 2

\* the database holds one pending game and one game in any status, and its
\* server runs in one of the two SQL modes
ReviewInit ==
    /\ lastIndex = ZeroLastIndex
    /\ call = NoCall
    /\ result = NoResult
    /\ report = NoReport
    /\ first = <<>>
    /\ before = ZeroLastIndex
    /\ \E s \in GameStatuses : games = <<Row(G1, "pending"), Row(G2, s)>>
    /\ response = NoResponse
    /\ form = DefaultValues
    /\ reviewLogs = <<>>
    /\ requests = <<>>
    /\ sqlMode \in {"strict", "loose"}
    /\ answered = NoAnswered

Without(seq, i) == SubSeq(seq, 1, i - 1) \o SubSeq(seq, i + 1, Len(seq))

coreVars == <<lastIndex, call, result, report, first, before, response, form>>

\* requests[i] is answered with `answer` after its last call `step`
ReviewAnswers(i, answer, step) ==
    /\ answered' = [route |-> "review", request |-> requests[i].request,
                    called |-> TRUE, answer |-> answer,
                    steps |-> Append(requests[i].steps, step)]
    /\ requests' = Without(requests, i)

\* requests[i] goes on to the await at `pc` after its call `step`
ReviewGoesOn(i, pc, step) ==
    /\ requests' = [requests EXCEPT ![i].pc = pc, ![i].steps = Append(@, step)]
    /\ UNCHANGED answered

\* POST /api/admin/review, route.ts 60-89: a request that is answered
\* before the first query
ReviewTurnedAway(request) ==
    /\ ReviewReceive(request).answer # <<>>
    /\ answered' = [route |-> "review", request |-> request,
                    called |-> ReviewReceive(request).called,
                    answer |-> ReviewReceive(request).answer[1], steps |-> <<>>]
    /\ UNCHANGED <<games, reviewLogs, requests, sqlMode>>
    /\ UNCHANGED coreVars

\* route.ts 60-89: a request that gets to GameDAL.getById, while fewer than
\* `limit` requests are being handled
ReviewArrives(request, limit) ==
    /\ Len(requests) < limit
    /\ ReviewReceive(request).answer = <<>>
    /\ requests' = Append(requests,
                          [request |-> request,
                           adminId |-> validateAdminAccess(request).adminId,
                           pc |-> "getById", steps |-> <<>>])
    /\ UNCHANGED <<games, reviewLogs, sqlMode, answered>>
    /\ UNCHANGED coreVars

\* route.ts 92-123: GameDAL.getById returns and the handler checks the row
ReviewGetById(i) ==
    /\ requests[i].pc = "getById"
    /\ LET body == requests[i].request.body
           check == ReviewCheck(getById(games, body.gameId), body.action, body.reason)
       IN  IF check # <<>> THEN ReviewAnswers(i, check[1], "getById")
           ELSE ReviewGoesOn(i, "updateStatus", "getById")
    /\ UNCHANGED <<games, reviewLogs, sqlMode>>
    /\ UNCHANGED coreVars

\* route.ts 126-141 and 161-171: GameDAL.updateStatus updates the row and
\* reads it back, or throws
ReviewUpdateStatus(i) ==
    /\ requests[i].pc = "updateStatus"
    /\ LET body == requests[i].request.body
           updated == updateStatus(games, body.gameId, body.action,
                                   <<requests[i].adminId>>, body.reason, sqlMode)
       IN  IF updated.threw
           THEN /\ ReviewAnswers(i, Answer(500, "review failed", <<>>), "updateStatus")
                /\ UNCHANGED games
           ELSE IF getById(updated.table, body.gameId) = <<>>
           THEN /\ ReviewAnswers(i, Answer(500, "update failed", <<>>), "updateStatus")
                /\ games' = updated.table
           ELSE /\ ReviewGoesOn(i, "create", "updateStatus")
                /\ games' = updated.table
    /\ UNCHANGED <<reviewLogs, sqlMode>>
    /\ UNCHANGED coreVars

\* route.ts 144-160: ReviewLogDAL.create inserts the log and the request is
\* answered with the game as updateStatus read it back
ReviewCreateLog(i) ==
    /\ requests[i].pc = "create"
    /\ LET body == requests[i].request.body
           reason == IF body.reason = <<>> \/ body.reason = <<"">> THEN Null
                     ELSE body.reason[1]
       IN  /\ reviewLogs' = Append(reviewLogs,
                                   NewReviewLog(reviewLogs, body.gameId, body.action,
                                                reason, requests[i].adminId))
           /\ ReviewAnswers(i, Answer(200, "", <<body.action>>), "create")
    /\ UNCHANGED <<games, sqlMode>>
    /\ UNCHANGED coreVars

\* route.ts 144-149 and 161-171: ReviewLogDAL.create throws
ReviewLogFails(i) ==
    /\ requests[i].pc = "create"
    /\ ReviewAnswers(i, Answer(500, "review failed", <<>>), "create")
    /\ UNCHANGED <<games, reviewLogs, sqlMode>>
    /\ UNCHANGED coreVars

\* a request GET /api/games/[id]
ReadGame ==
    \E request \in [authorization : Headers, id : {G1, G2, UnknownId, BadId}] :
        /\ requests = <<>>
        /\ answered' = [route |-> "game", request |-> request, called |-> TRUE,
                        answer |-> GetGame(request, games), steps |-> <<>>]
        /\ UNCHANGED <<games, reviewLogs, requests, sqlMode>>
        /\ UNCHANGED coreVars

\* a request GET /api/admin/review/logs
ReadLogs ==
    \E authorization \in Headers :
        /\ requests = <<>>
        /\ answered' = [route |-> "logs",
                        request |-> [authorization |-> authorization],
                        called |-> GetLogs([authorization |-> authorization],
                                           reviewLogs).called,
                        answer |-> GetLogs([authorization |-> authorization],
                                           reviewLogs).answer[1],
                        steps |-> <<>>]
        /\ UNCHANGED <<games, reviewLogs, requests, sqlMode>>
        /\ UNCHANGED coreVars

\* the steps of the requests being handled
ReviewStep ==
    \/ \E i \in 1..Len(requests) : ReviewGetById(i)
    \/ \E i \in 1..Len(requests) : ReviewUpdateStatus(i)
    \/ \E i \in 1..Len(requests) : ReviewCreateLog(i)
    \/ \E i \in 1..Len(requests) : ReviewLogFails(i)

ReviewNext ==
    \/ \E request \in ReviewRequests : ReviewTurnedAway(request)
    \/ \E request \in ReviewRequests : ReviewArrives(request, 1)
    \/ ReviewStep
    \/ ReadGame
    \/ ReadLogs

\* requests to the admin routes and to GET /api/games/[id], one after the
\* other
ReviewSpec == ReviewInit /\ [][ReviewNext]_vars

RaceNext ==
    \/ \E request \in RaceRequests : ReviewArrives(request, MaxInFlight)
    \/ ReviewStep

\* requests POST /api/admin/review for the same game, handled at the same time
RaceSpec == ReviewInit /\ [][RaceNext]_vars

----------------------------------------------------------------------------
(* Properties *)

HasKind(findings, kind) == \E i \in 1..Len(findings) : findings[i].kind = kind
Names(findings, kind, detail) ==
    \E i \in 1..Len(findings) :
        findings[i].kind = kind /\ findings[i].detail = detail
Count(findings, kind, detail) ==
    Cardinality({i \in 1..Len(findings) :
                    findings[i].kind = kind /\ findings[i].detail = detail})

\* C1: the result of validateHtmlContent has isValid = TRUE exactly when its
\* violations list is empty, whatever its warnings list holds
C1_ValidIffNoViolations ==
    call.fn = "validate" => (result.isValid <=> result.violations = <<>>)

\* a scan that returned warnings and no violation
C1_Witness ==
    /\ call.fn = "validate"
    /\ result.warnings # <<>>
    /\ result.violations = <<>>
    /\ result.isValid

Range(seq) == {seq[i] : i \in 1..Len(seq)}

TagTexts(c) == Range(Texts(c, ExecAll(tagRegex, c, 0)))

\* \s(on[a-zA-Z]+)\s*=  : an event-handler attribute assignment in a tag
handlerAttrRegex ==
    RegExp("\\s(on[a-zA-Z]+)\\s*=",
           <<One(Whitespace)>> \o Lit("on")
             \o <<Plus(Letters), Star(Whitespace), One({"="})>>, "gi")

\* the lower-cased names of the event-handler attributes assigned in the
\* tags of c
HandlerAttributes(c) ==
    UNION { { toLowerCase(Group(t, m, 2, 4)) :
                m \in Range(ExecAll(handlerAttrRegex, t, 0)) } :
            t \in TagTexts(c) }

\* C3: every event-handler attribute assigned in a tag (name "on" followed
\* by letters, any case, at any position among the attributes of the tag)
\* gets a DANGEROUS_ATTRIBUTE violation naming it, and the content is invalid
C3_EveryHandlerReported ==
    call.fn = "validate" =>
        \A n \in HandlerAttributes(call.content) :
            Names(result.violations, "DANGEROUS_ATTRIBUTE", n) /\ ~result.isValid

\* \s([a-zA-Z-]+)\s*=\s*["']?javascript:  : an attribute whose value, quoted
\* or not, begins with javascript:
jsValueRegex ==
    RegExp("\\s([a-zA-Z-]+)\\s*=\\s*[\"']?javascript:",
           <<One(Whitespace), Plus(Letters \cup {"-"}), Star(Whitespace),
             One({"="}), Star(Whitespace), Opt(Quotes)>> \o Lit("javascript:"),
           "g")

HasJavascriptValue(c) ==
    \E t \in TagTexts(c) : SearchFrom(jsValueRegex, t, 0) # <<>>

\* C4: an attribute in a tag whose value begins with javascript: (double
\* quoted, single quoted or unquoted, attribute name in any case) gets a
\* JAVASCRIPT_PROTOCOL violation, and the content is invalid
C4_EveryJavascriptValueReported ==
    (call.fn = "validate" /\ HasJavascriptValue(call.content)) =>
        HasKind(result.violations, "JAVASCRIPT_PROTOCOL") /\ ~result.isValid

\* the inner texts of the <script>...</script> blocks of c, in order
ScriptInnerTexts(c) ==
    LET ms == ExecAll(scriptRegex, c, 0)
    IN  [b \in 1..Len(ms) |-> Group(c, ms[b], 10, 10)]

\* C5: for every forbidden pattern p, the number of MALICIOUS_SCRIPT
\* violations naming p is the number of script blocks whose inner text
\* holds a match of p
C5_OnePerBlockAndPattern ==
    call.fn = "validate" =>
        LET inner == ScriptInnerTexts(call.content)
            patterns == Configs[call.config].forbiddenPatterns
        IN  \A p \in 1..Len(patterns) :
                Count(result.violations, "MALICIOUS_SCRIPT", patterns[p].source)
                  = Cardinality({b \in 1..Len(inner) :
                                    SearchFrom(patterns[p], inner[b], 0) # <<>>})

\* <script[^>]*>  : an opening script tag
scriptOpenRegex ==
    RegExp("<script[^>]*>", Lit("<script") \o <<NotStar({">"}), One({">"})>>, "gi")

\* the http URLs given by the src attributes of the script tags of c
ExternalScriptUrls(c) ==
    LET tags == Range(Texts(c, ExecAll(scriptOpenRegex, c, 0)))
        withSrc == {t \in tags : SearchFrom(srcRegex, t, 0) # <<>>}
        urls == {Group(t, SearchFrom(srcRegex, t, 0), 8, 8) : t \in withSrc}
    IN  {u \in urls : startsWith(u, "http")}

\* C6: every script tag with a src attribute whose value starts with http
\* gets an EXTERNAL_SCRIPT violation naming the URL and makes the content
\* invalid, with or without a closing tag, however src is spelled
C6_EveryExternalScriptReported ==
    call.fn = "validate" =>
        \A u \in ExternalScriptUrls(call.content) :
            Names(result.violations, "EXTERNAL_SCRIPT", u) /\ ~result.isValid

\* C7: a call of validateHtmlContent or generateSecurityReport on a content
\* and a policy returns the isValid, the violations in order and the warnings
\* that the first call on that content and policy returned, whatever calls
\* on other contents ran on the policy object before or in between
C7_SameCallSameResult ==
    call.fn \in {"validate", "report"} =>
        result = first[<<call.content, call.config>>]

\* validateHtmlContent called again on a content with a script block, on a
\* policy whose RegExp objects the previous call left with a non-zero
\* lastIndex
C7_Witness ==
    /\ call.fn = "validate"
    /\ call.repeat
    /\ before # ZeroLastIndex
    /\ HasKind(result.violations, "MALICIOUS_SCRIPT")

\* C8: after a call every RegExp of the policy has the lastIndex it had
\* before the call
C8_PolicyNotMutated == lastIndex = before

\* the step of validateHtmlContent that emits a kind of violation
StepOf(kind) ==
    CASE kind = "FILE_TOO_LARGE" -> 1
      [] kind = "FORBIDDEN_PATTERN" -> 2
      [] kind \in {"DANGEROUS_ATTRIBUTE", "JAVASCRIPT_PROTOCOL"} -> 4
      [] kind \in {"MALICIOUS_SCRIPT", "EXTERNAL_SCRIPT"} -> 5
      [] kind \in {"CSS_JAVASCRIPT", "CSS_EXPRESSION", "CSS_EXTERNAL_IMPORT"} -> 6

PatternIndex(patterns, source) ==
    CHOOSE k \in 1..Len(patterns) : patterns[k].source = source

\* C9: the violations are ordered by step, and the FORBIDDEN_PATTERN entries
\* follow the order of the policy's patterns
C9_OrderedBySteps ==
    call.fn = "validate" =>
        LET v == result.violations
            patterns == Configs[call.config].forbiddenPatterns
        IN  \A i, j \in 1..Len(v) :
                i < j =>
                    /\ StepOf(v[i].kind) <= StepOf(v[j].kind)
                    /\ (v[i].kind = "FORBIDDEN_PATTERN" /\ v[j].kind = "FORBIDDEN_PATTERN")
                         => PatternIndex(patterns, v[i].detail)
                              < PatternIndex(patterns, v[j].detail)

\* a scan whose violations come from all five violating steps, with two
\* forbidden patterns that occur in the content against the policy's order
C9_Witness ==
    /\ call.fn = "validate"
    /\ HasKind(result.violations, "FILE_TOO_LARGE")
    /\ Names(result.violations, "FORBIDDEN_PATTERN", "fetch\\s*\\(")
    /\ Names(result.violations, "FORBIDDEN_PATTERN", "eval\\s*\\(")
    /\ HasKind(result.violations, "DANGEROUS_ATTRIBUTE")
    /\ HasKind(result.violations, "MALICIOUS_SCRIPT")
    /\ HasKind(result.violations, "CSS_EXPRESSION")

AllIn(part, whole) ==
    \A i \in 1..Len(part) : \E j \in 1..Len(whole) : whole[j] = part[i]

\* C10: each check reports what it finds whatever the other checks found:
\* the size violation, every forbidden pattern that occurs, the attribute
\* findings, the script-block and style-block findings and the tag warnings
\* are all in the result
C10_NoShortCircuit ==
    call.fn = "validate" =>
        LET c == call.content
            config == Configs[call.config]
        IN  /\ BlobSize(c) > config.maxFileSize
                 => HasKind(result.violations, "FILE_TOO_LARGE")
            /\ \A p \in 1..Len(config.forbiddenPatterns) :
                 SearchFrom(config.forbiddenPatterns[p], c, 0) # <<>>
                   => Names(result.violations, "FORBIDDEN_PATTERN",
                            config.forbiddenPatterns[p].source)
            /\ AllIn(AttributeInventory(c), result.violations)
            /\ AllIn(ScriptScan(c, config, ZeroLastIndex).violations,
                        result.violations)
            /\ AllIn(StyleScan(c), result.violations)
            /\ result.warnings = TagInventory(c, config)

\* one content over the size limit with a forbidden pattern, an
\* event-handler attribute, a disallowed tag and a dangerous style block
C10_Witness ==
    /\ call.fn = "validate"
    /\ HasKind(result.violations, "FILE_TOO_LARGE")
    /\ HasKind(result.violations, "FORBIDDEN_PATTERN")
    /\ HasKind(result.violations, "DANGEROUS_ATTRIBUTE")
    /\ HasKind(result.violations, "CSS_EXPRESSION")
    /\ HasKind(result.warnings, "SUSPICIOUS_TAG")

\* the number of bytes of the UTF-8 encoding of a character
Utf8Bytes(ch) ==
    IF ch \in ThreeByteChars THEN 3 ELSE IF ch \in TwoByteChars THEN 2 ELSE 1

\* the number of bytes of the UTF-8 encoding of s
RECURSIVE Utf8Length(_)
Utf8Length(s) ==
    IF Len(s) = 0 THEN 0
    ELSE IF Len(s) = 1 THEN Utf8Bytes(s)
    ELSE LET half == Len(s) \div 2
         IN  Utf8Length(SubSeq(s, 1, half)) + Utf8Length(SubSeq(s, half + 1, Len(s)))

\* C11: FILE_TOO_LARGE is among the violations exactly when the UTF-8 byte
\* length of the content is strictly greater than the policy's maxFileSize;
\* it reports that byte length and that limit
C11_TooLargeIffBytesOverLimit ==
    call.fn = "validate" =>
        LET limit == Configs[call.config].maxFileSize
            bytes == Utf8Length(call.content)
        IN  /\ Configs["default"].maxFileSize = 5 * 1024 * 1024
            /\ HasKind(result.violations, "FILE_TOO_LARGE") <=> bytes > limit
            /\ \A i \in 1..Len(result.violations) :
                 result.violations[i].kind = "FILE_TOO_LARGE" =>
                     /\ result.violations[i].size = bytes
                     /\ result.violations[i].limit = limit

\* a content with no more characters than the limit, whose encoding is over
\* the limit, was rejected
C11_Witness ==
    /\ call.fn = "validate"
    /\ Len(call.content) <= Configs[call.config].maxFileSize
    /\ Utf8Length(call.content) > Configs[call.config].maxFileSize
    /\ HasKind(result.violations, "FILE_TOO_LARGE")
    /\ ~result.isValid

IsWhitespaceOnly(s) == \A i \in 1..Len(s) : CharAt(s, i) \in Whitespace

Clean(r) == r.isValid /\ r.violations = <<>> /\ r.warnings = <<>>

\* C12 as stated: the empty string and every content made only of
\* whitespace is valid, with no violation and no warning (the policy "small"
\* is the default policy with its byte limit scaled down to SmallLimit, so a
\* content of SmallLimit + 1 spaces stands for one of 5 * 1024 * 1024 + 1)
C12_WhitespaceAlwaysClean ==
    (call.fn = "validate" /\ IsWhitespaceOnly(call.content)) => Clean(result)

\* C12 amended: the empty string and every content made only of whitespace
\* whose byte length is not over the policy's limit is valid, with no
\* violation and no warning
C12_WhitespaceWithinLimitClean ==
    (/\ call.fn = "validate"
     /\ IsWhitespaceOnly(call.content)
     /\ Utf8Length(call.content) <= Configs[call.config].maxFileSize) => Clean(result)

\* a content of spaces, tabs and line ends was scanned and accepted
C12_Witness ==
    /\ call.fn = "validate"
    /\ Len(call.content) > 3
    /\ IsWhitespaceOnly(call.content)
    /\ Clean(result)

\* <\/?([a-zA-Z][a-zA-Z0-9]*)[^>]*>  : a tag, its name without the slash
tagNameRegex ==
    RegExp("<\\/?([a-zA-Z][a-zA-Z0-9]*)[^>]*>",
           <<One({"<"}), Opt({"/"}), One(Letters), Star(Letters \cup Digits),
             NotStar({">"}), One({">"})>>, "g")

\* the lower-cased names of the opening and closing tags of c, in order
TagNames(c) ==
    LET ms == ExecAll(tagNameRegex, c, 0)
    IN  [k \in 1..Len(ms) |-> toLowerCase(Group(c, ms[k], 3, 4))]

\* C13: the warnings are the SUSPICIOUS_TAG entries of the tags whose
\* lower-cased name is not in allowedTags, one per occurrence and none for an
\* allowed tag; no violation is a SUSPICIOUS_TAG, and a content on which no
\* other check finds anything is valid with no violation
C13_DisallowedTagsOnlyWarn ==
    call.fn = "validate" =>
        LET c == call.content
            config == Configs[call.config]
            names == TagNames(c)
        IN  /\ \A i \in 1..Len(result.warnings) :
                 result.warnings[i].kind = "SUSPICIOUS_TAG"
            /\ ~HasKind(result.violations, "SUSPICIOUS_TAG")
            /\ \A k \in 1..Len(names) :
                 Count(result.warnings, "SUSPICIOUS_TAG", names[k])
                   = IF ArrayIncludes(config.allowedTags, names[k]) THEN 0
                     ELSE Cardinality({j \in 1..Len(names) : names[j] = names[k]})
            /\ Len(result.warnings)
                 = Cardinality({k \in 1..Len(names) :
                                   ~ArrayIncludes(config.allowedTags, names[k])})
            /\ (/\ Utf8Length(c) <= config.maxFileSize
                /\ \A p \in 1..Len(config.forbiddenPatterns) :
                     SearchFrom(config.forbiddenPatterns[p], c, 0) = <<>>
                /\ AttributeInventory(c) = <<>>
                /\ StyleScan(c) = <<>>
                /\ ScriptScan(c, config, ZeroLastIndex).violations = <<>>)
                 => (result.isValid /\ result.violations = <<>>)

\* a content whose only finding is a disallowed tag, used next to an allowed
\* tag written in upper case, is valid and carries the warnings
C13_Witness ==
    /\ call.fn = "validate"
    /\ Names(result.warnings, "SUSPICIOUS_TAG", "object")
    /\ \E k \in 1..Len(TagNames(call.content)) : TagNames(call.content)[k] = "p"
    /\ ~Names(result.warnings, "SUSPICIOUS_TAG", "p")
    /\ result.isValid
    /\ result.violations = <<>>

\* C14: sanitizedContent is present exactly when isValid is true, and when
\* present it is the content that was passed in, character for character
C14_SanitizedIsInputWhenValid ==
    call.fn = "validate" =>
        /\ (result.sanitizedContent # <<>>) <=> result.isValid
        /\ result.isValid => result.sanitizedContent = <<call.content>>

\* a content with leading whitespace and multi-byte characters was accepted
\* and handed back as it was
C14_Witness ==
    /\ call.fn = "validate"
    /\ result.isValid
    /\ Len(call.content) > 0
    /\ CharAt(call.content, 1) \in Whitespace
    /\ Utf8Length(call.content) > Len(call.content)
    /\ result.sanitizedContent = <<call.content>>

\* C15: the output of sanitizeHtmlContent contains no "javascript:" in any
\* letter case, also none that only comes into existence by the removal of
\* other text
C15_NoJavascriptProtocolLeft ==
    call.fn = "sanitize" => ~includes(toLowerCase(result), "javascript:")

\* /\bon[a-zA-Z]+\s*=/ without the \b, which HasHandlerAssignment tests
handlerAssignmentRegex ==
    RegExp("on[a-zA-Z]+\\s*=",
           Lit("on") \o <<Plus(Letters), Star(Whitespace), One({"="})>>, "")

\* s has a substring matching \bon[a-zA-Z]+\s*= : "on" after a word
\* boundary, letters, optional whitespace and "="
HasHandlerAssignment(s) ==
    \E i \in 1..Len(s) :
        /\ i = 1 \/ CharAt(s, i - 1) \notin WordChars
        /\ MatchFrom(handlerAssignmentRegex, 1, s, i) # <<>>

\* C16: the output of sanitizeHtmlContent contains no event-handler
\* attribute assignment (word boundary, "on", letters, optional whitespace,
\* "="), whatever the quoting of the handler's value in the input was
C16_NoHandlerAssignmentLeft ==
    call.fn = "sanitize" => ~HasHandlerAssignment(result)

\* the elements of seq whose flag in keep is TRUE, in order
RECURSIVE Kept(_, _)
Kept(seq, keep) ==
    IF seq = <<>> THEN <<>>
    ELSE (IF keep[1] THEN <<seq[1]>> ELSE <<>>) \o Kept(Tail(seq), Tail(keep))

\* C19: validateFile runs its three checks unconditionally: for each of the
\* 8 combinations of (size > maxFileSize, type not in allowedFileTypes,
\* lower-cased name not ending in .html/.htm/.txt) errors holds exactly the
\* errors of the failing checks in the order size, type, extension; isValid
\* is true exactly when errors is empty; size and type are the file's own
C19_FileChecksAccumulate ==
    call.fn = "validateFile" =>
        LET file == call.content
            tooLarge == file.size > Configs[call.config].maxFileSize
            badType == file.type \notin {"text/html", "text/plain"}
            badExtension == \A ext \in {".html", ".htm", ".txt"} :
                                ~endsWith(toLowerCase(file.name), ext)
        IN  /\ result.errors =
                   Kept(<<"file size exceeds limit", "unsupported file type",
                          "unsupported file extension">>,
                        <<tooLarge, badType, badExtension>>)
            /\ result.isValid = (result.errors = <<>>)
            /\ result.size = file.size
            /\ result.type = file.type

\* a file that fails all three checks and has the three errors in order
C19_Witness ==
    /\ call.fn = "validateFile"
    /\ call.content.size > Configs[call.config].maxFileSize
    /\ call.content.type = "application/javascript"
    /\ call.content.name = "a.html.exe"
    /\ Len(result.errors) = 3
    /\ ~result.isValid

\* C20: validateStringContent(content, maxSize) reports a size error exactly
\* when the UTF-8 byte length of content is greater than maxSize and an
\* empty-content error exactly when the trimmed content is empty; both checks
\* always run, the size error first; isValid is true exactly when there is no
\* error; size is the byte length and type is always "text/html"
C20_StringChecksAccumulate ==
    call.fn = "validateStringContent" =>
        LET content == call.content[1]
            maxSize == call.content[2]
        IN  /\ result.errors =
                   Kept(<<"content size exceeds limit", "content must not be empty">>,
                        <<Utf8Length(content) > maxSize, IsWhitespaceOnly(content)>>)
            /\ result.isValid = (result.errors = <<>>)
            /\ result.size = Utf8Length(content)
            /\ result.type = "text/html"

\* a whitespace-only content over the limit has both errors, size first
C20_Witness ==
    /\ call.fn = "validateStringContent"
    /\ call.content[1] # ""
    /\ Utf8Length(call.content[1]) > call.content[2]
    /\ result.errors = <<"content size exceeds limit", "content must not be empty">>
    /\ ~result.isValid

\* the inner texts of the <style>...</style> blocks of c, in order
StyleInnerTexts(c) ==
    LET ms == ExecAll(styleRegex, c, 0)
    IN  [b \in 1..Len(ms) |-> Group(c, ms[b], 9, 9)]

\* text s holds a match of re somewhere
Holds(re, s) == \E i \in 1..(Len(s) + 1) : MatchFrom(re, 1, s, i) # <<>>

\* the number of the blocks whose inner text holds a match of re
Offending(inner, re) == Cardinality({b \in 1..Len(inner) : Holds(re, inner[b])})

\* C18: style blocks are checked one by one and independently: the number of
\* CSS_JAVASCRIPT violations is the number of style blocks whose inner text
\* holds javascript:, likewise CSS_EXPRESSION for expression( and
\* CSS_EXTERNAL_IMPORT for @import url( with an http(s) target, whatever the
\* blocks scanned before held
C18_OnePerStyleBlockAndKind ==
    call.fn = "validate" =>
        \A inner \in {StyleInnerTexts(call.content)} :
            /\ Count(result.violations, "CSS_JAVASCRIPT", "")
                 = Offending(inner, cssJavascriptRegex)
            /\ Count(result.violations, "CSS_EXPRESSION", "")
                 = Offending(inner, cssExpressionRegex)
            /\ Count(result.violations, "CSS_EXTERNAL_IMPORT", "")
                 = Offending(inner, cssImportRegex)

\* two style blocks with expression(, the second one shorter than the first
\* one up to the end of its match, give two CSS_EXPRESSION violations
C18_Witness ==
    /\ call.fn = "validate"
    /\ call.content = "<style>a{width:expression(1)}</style>"
                        \o "<style>a{width:expression(1)}</style>"
    /\ Count(result.violations, "CSS_EXPRESSION", "") = 2

\* C17: on every path to the scanner (POST /api/games, file upload, paste
\* change, form submit) validateStringContent runs before validateHtmlContent,
\* and validateHtmlContent is not called on a content whose byte size is over
\* the limit
C17_SizeCheckedBeforeScan ==
    call.fn \in {"post", "handleFileUpload", "handleHtmlContentChange", "onSubmit"} =>
        \A i \in 1..Len(call.steps) :
            call.steps[i] = "validateHtmlContent" =>
                /\ \E j \in 1..(i - 1) : call.steps[j] = "validateStringContent"
                /\ Utf8Length(call.content) <= Configs[call.config].maxFileSize

\* C21: generateSecurityReport returns details equal to what
\* validateHtmlContent returns for the content and the policy; summary is
\* the passed message exactly when details.isValid, else the found-N-issues
\* message with N = details.violations.length; recommendations is empty
\* exactly when there is neither a violation nor a warning, holds the three
\* remediation items when there are violations, and the two review items,
\* after the remediation items, when there are warnings
C21_ReportFollowsDetails ==
    call.fn = "report" =>
        \A v \in {validateHtmlContent(call.content, Configs[call.config], before)} :
        LET remediation == <<"fix all violations and resubmit",
                             "avoid external resources and network requests",
                             "use safe DOM manipulation">>
            review == <<"review the warnings", "consider safer alternatives">>
            n == Len(report.recommendations)
        IN  /\ result = v.result
            /\ (report.summary.text = "content passed security check") = result.isValid
            /\ ~result.isValid =>
                   /\ report.summary.text = "found security issues"
                   /\ report.summary.count = Len(result.violations)
            /\ (report.recommendations = <<>>)
                 = (result.violations = <<>> /\ result.warnings = <<>>)
            /\ result.violations # <<>> =>
                   n >= 3 /\ SubSeq(report.recommendations, 1, 3) = remediation
            /\ result.warnings # <<>> =>
                   n >= 2 /\ SubSeq(report.recommendations, n - 1, n) = review
            /\ n = (IF result.violations # <<>> THEN 3 ELSE 0)
                     + (IF result.warnings # <<>> THEN 2 ELSE 0)

\* a report on a content with a violation and a warning: five items
C21_Witness ==
    /\ call.fn = "report"
    /\ result.violations # <<>>
    /\ result.warnings # <<>>
    /\ Len(report.recommendations) = 5
    /\ report.summary.count = Len(result.violations)

\* C26: each MALICIOUS_SCRIPT violation naming a forbidden pattern p comes
\* after a FORBIDDEN_PATTERN violation naming the same p in the violations
\* list
C26_ScriptFindingAfterPatternFinding ==
    call.fn = "validate" =>
        \A i \in 1..Len(result.violations) :
            result.violations[i].kind = "MALICIOUS_SCRIPT" =>
                \E j \in 1..(i - 1) :
                    /\ result.violations[j].kind = "FORBIDDEN_PATTERN"
                    /\ result.violations[j].detail = result.violations[i].detail

\* a scan with two script blocks that reports MALICIOUS_SCRIPT for two
\* different patterns
C26_Witness ==
    /\ call.fn = "validate"
    /\ \E i, j \in 1..Len(result.violations) :
           /\ result.violations[i].kind = "MALICIOUS_SCRIPT"
           /\ result.violations[j].kind = "MALICIOUS_SCRIPT"
           /\ result.violations[i].detail # result.violations[j].detail
    /\ Len(ScriptInnerTexts(call.content)) >= 2

\* C30: sanitizeHtmlContent is idempotent: a second pass over the output of
\* sanitizeHtmlContent removes nothing
C30_SanitizeIdempotent ==
    call.fn = "sanitize" => sanitizeHtmlContent(result) = result


\* the header is the admin secret, bare or after the prefix 'Bearer '
Authentic(authorization) ==
    authorization \in {<<"admin-secret-key">>, <<"Bearer admin-secret-key">>}

\* C24: a handler behind requireAdmin (the review action, the log read) is
\* called only for a request whose Authorization header is the admin secret,
\* bare or after 'Bearer '; every other request is answered 401
\* 'Unauthorized' with no data, its handler is not called and no query is
\* made for it, and no such request is ever being handled.
C24_AdminOnly ==
    /\ \A i \in 1..Len(requests) : Authentic(requests[i].request.authorization)
    /\ answered.route \in {"review", "logs"} =>
           IF Authentic(answered.request.authorization)
           THEN answered.called /\ answered.answer # Unauthorized
           ELSE /\ ~answered.called
                /\ answered.answer = Unauthorized
                /\ answered.steps = <<>>

C24_Witness ==
    /\ answered.route = "logs"
    /\ answered.request.authorization = <<"bearer admin-secret-key">>
    /\ answered.answer.status = 401
    /\ reviewLogs # <<>>


\* the last request answered was a review request answered with `status`
Reviewed(status) == answered.route = "review" /\ answered.answer.status = status

\* the row of game `id`
Game(id) == getById(games, id)[1]

\* C22: when POST /api/admin/review has answered 200, the stored game holds
\* the decision: after 'approve' its status is 'approved', approvedBy is
\* the admin, approvedAt is set and rejectionReason is null; after 'reject'
\* its status is 'rejected', rejectionReason is the given reason and
\* approvedAt and approvedBy are null.  The stored status is always one of
\* pending, approved, rejected.
C22_StoredGameReflectsDecision ==
    /\ \A i \in 1..Len(games) : games[i].status \in GameStatuses
    /\ Reviewed(200) =>
           \A g \in {Game(answered.request.body.gameId)} :
               IF answered.request.body.action = "approve"
               THEN /\ g.status = "approved"
                    /\ g.approvedBy = "admin"
                    /\ g.approvedAt # Null
                    /\ g.rejectionReason = Null
               ELSE /\ g.status = "rejected"
                    /\ g.rejectionReason = answered.request.body.reason[1]
                    /\ g.approvedAt = Null
                    /\ g.approvedBy = Null


\* the step in which requests[i] gets the row back from GameDAL.getById
\* answers it with `answer`, after that one query and without a write
RefusedUnchanged(i, answer) ==
    /\ answered' = [route |-> "review", request |-> requests[i].request,
                    called |-> TRUE, answer |-> answer, steps |-> <<"getById">>]
    /\ requests' = Without(requests, i)
    /\ games' = games
    /\ reviewLogs' = reviewLogs

\* C23: POST /api/admin/review for a game that is not pending is answered
\* 400, and for an id no game has 404; the request has made no write: the
\* games table and the review logs are as they were.
C23_NotPendingOrUnknownRefused ==
    [][\A i \in 1..Len(requests) :
          (requests[i].pc = "getById" /\ requests' # requests) =>
              \A existing \in {getById(games, requests[i].request.body.gameId)} :
                  /\ existing = <<>> =>
                         RefusedUnchanged(i, Answer(404, "game not found", <<>>))
                  /\ (existing # <<>> /\ existing[1].status # "pending") =>
                         RefusedUnchanged(i, Answer(400, "already reviewed", <<>>))]_vars

C23_Witness ==
    /\ Reviewed(400)
    /\ answered.answer.error = "already reviewed"
    /\ answered.steps = <<"getById">>
    /\ Game(answered.request.body.gameId).status = "rejected"
    /\ Len(reviewLogs) = 1


\* no reason, an empty one or one of white space only
Blank(reason) == reason \in {<<>>, <<"">>, <<" ">>, <<"  ">>}

\* C27: POST /api/admin/review with action 'reject' and a missing, empty or
\* whitespace-only reason, for a pending game, is answered 400; the request
\* has made no write: the game is still pending with its fields as they
\* were, and the review logs are as they were.
C27_RejectNeedsReason ==
    [][\A i \in 1..Len(requests) :
          (requests[i].pc = "getById" /\ requests' # requests) =>
              \A body \in {requests[i].request.body} :
              \A existing \in {getById(games, body.gameId)} :
                  (/\ body.action = "reject"
                   /\ Blank(body.reason)
                   /\ existing # <<>>
                   /\ existing[1].status = "pending") =>
                      /\ RefusedUnchanged(i, Answer(400, "reason required", <<>>))
                      /\ getById(games', body.gameId) = existing]_vars

C27_Witness ==
    /\ Reviewed(400)
    /\ answered.answer.error = "reason required"
    /\ answered.request.body.reason = <<"  ">>
    /\ Game(answered.request.body.gameId).status = "pending"


LogsOf(id) == SelectSeq(reviewLogs, LAMBDA l : l.gameId = id)

\* C28: however the requests POST /api/admin/review for the same pending
\* game interleave, at most one of them is accepted: the game never has
\* more than one review log.
C28_DecidedOnce == Len(LogsOf(G1)) <= 1

\* C29: once no request POST /api/admin/review is being handled, a game
\* whose status a review has changed has a review log by the reviewer, and
\* a request answered with an error has left its game pending, also when
\* ReviewLogDAL.create failed after GameDAL.updateStatus.
C29_DecisionHasLog ==
    requests = <<>> =>
        /\ Game(G1).status # "pending" =>
               \E i \in 1..Len(reviewLogs) :
                   /\ reviewLogs[i].gameId = G1
                   /\ reviewLogs[i].reviewer = "admin"
        /\ (Reviewed(500) /\ answered.request.body.gameId = G1) =>
               Game(G1).status = "pending"

============================================================================
